---- MODULE Spec2Model ----
(***************************************************************************)
(* The Matrix provider of packages/web/src/matrix/client.tsx: session      *)
(* persistence, client bootstrap (start / bindClient / ensureCrypto), the  *)
(* readiness flags and the published room list.  client.tsx holds three    *)
(* revisions of the provider; the variable rev says which one runs.        *)
(***************************************************************************)
EXTENDS Integers, Sequences, FiniteSets, TLC

\* ------------------------------------------------------------- bounds
\* MatrixClient instances created in one run
MaxClients == 2
\* rooms a client's SDK store holds at once
MaxRooms == 2
\* largest last-activity timestamp
MaxTs == 2
\* login requests in flight at once
MaxPending == 1
\* isKeyBackupEnabled queries in flight at once
MaxKb == 2

Revisions == {1, 2, 3}

\* ------------------------------------------------------------- JS values
\* A JS value is a string, or one of two marks for what is not a string.
Undef == "<undefined>"
NonStr == "<number>"

nonEmptyLax(x) == x \notin {Undef, NonStr}

\* typeof x === 'string' && x.length > 0
nonEmpty(x) == x \notin {Undef, NonStr} /\ x # ""

\* a ?? b
Coalesce(a, b) == IF a = Undef THEN b ELSE a

NoCred == [userId |-> Undef, accessToken |-> Undef, deviceId |-> Undef]

\* ok = FALSE is the thrown Error('SSO/login failed: missing credentials')
normalizeLoginResult(raw) ==
  LET userId == Coalesce(raw.userId, raw.user_id)
      accessToken == Coalesce(raw.accessToken, raw.access_token)
      deviceId == Coalesce(raw.deviceId, raw.device_id)
  IN  IF ~nonEmpty(userId) \/ ~nonEmpty(accessToken)
      THEN [ok |-> FALSE, res |-> NoCred]
      ELSE [ok |-> TRUE,
            res |-> [userId |-> userId, accessToken |-> accessToken, deviceId |-> deviceId]]

Raw(u, us, t, ts, d, ds) ==
  [userId |-> u, user_id |-> us, accessToken |-> t, access_token |-> ts,
   deviceId |-> d, device_id |-> ds]

\* the login responses the homeserver is taken to give
RawResults ==
  { Raw("u1", Undef, "t1", Undef, "d1", Undef),
    Raw(Undef, "u1", Undef, "t2", Undef, Undef),
    Raw("u1", "u1", "t1", "t2", "d1", "d1"),
    Raw("", "u1", "t1", Undef, "d1", Undef),
    Raw("u1", Undef, "", "t2", Undef, Undef),
    Raw(NonStr, Undef, "t1", Undef, Undef, Undef),
    Raw("u1", Undef, Undef, Undef, "d1", Undef),
    Raw(Undef, Undef, Undef, Undef, Undef, Undef) }

CredA == [userId |-> "u1", accessToken |-> "t1", deviceId |-> "d1"]
CredB == [userId |-> "u1", accessToken |-> "t2", deviceId |-> Undef]

\* ------------------------------------------------------------- homeserver
\* A homeserver string is scheme \o host; scheme "" when the input has none.
Hs(scheme, host) == [scheme |-> scheme, host |-> host]
EmptyHs == Hs("", "")
HsInputs == {EmptyHs, Hs("", "hs.org"), Hs("https://", "hs.org")}

\* /^https?:\/\//i.test(s) ? s : (s ? `https://${s}` : '')
normHs(s) ==
  IF s.scheme # "" THEN s
  ELSE IF s.host # "" THEN Hs("https://", s.host)
  ELSE EmptyHs

\* ------------------------------------------------------------- localStorage
\* The value under SESSION_KEY: absent, a text that does not parse to an
\* object, or the JSON text of a record.
NoSession == [kind |-> "none", val |-> NoCred]
Garbage == [kind |-> "garbage", val |-> NoCred]
JsonStringifyNoDevice(cred) ==
  [kind |-> "json", val |-> [cred EXCEPT !.deviceId = Undef]]

JsonStringify(cred) == [kind |-> "json", val |-> cred]
\* ok = FALSE: JSON.parse threw, or the property access on its result did
JsonParse(s) == [ok |-> s.kind = "json", val |-> s.val]

HsAbsent == [kind |-> "none", val |-> EmptyHs]
HsStored(h) == [kind |-> "set", val |-> h]

\* ------------------------------------------------------------- rooms
\* A Room object of the SDK: its id and what getLastActiveTs() (or the last
\* timeline event) gives: a finite number t, or something that is not
\* (undefined, NaN).  Null is a falsy array entry.
RoomObj(id, fin, t) == [id |-> id, fin |-> fin, t |-> t]
Null == RoomObj(0, FALSE, 0)
RoomIds == 1..MaxRooms
RoomObjs == {RoomObj(i, TRUE, t) : i \in RoomIds, t \in 0..MaxTs}
              \cup {RoomObj(i, FALSE, 0) : i \in RoomIds}

\* rs.filter(Boolean), or [] when the SDK gave no array
roomsArray(rs, isArray) ==
  IF isArray THEN SelectSeq(rs, LAMBDA r : r.id # 0) ELSE <<>>

lastTs(r) == IF r.fin THEN r.t ELSE 0

\* s is sorted; r goes after every entry that does not compare after it
\* (Array.prototype.sort is stable)
InsertSorted(s, r) ==
  LET k == Cardinality({i \in 1..Len(s) : lastTs(s[i]) >= lastTs(r)})
  IN  SubSeq(s, 1, k) \o <<r>> \o SubSeq(s, k + 1, Len(s))

RECURSIVE sortRooms(_)
sortRooms(rs) ==
  IF rs = <<>> THEN <<>>
  ELSE InsertSorted(sortRooms(SubSeq(rs, 1, Len(rs) - 1)), rs[Len(rs)])

\* ------------------------------------------------------------- retention
\* Times are milliseconds.  Absent is a max_lifetime that is null or
\* undefined: no m.room.retention event, no such field, or no such room.
Absent == -1
SecondsBelow == 60000
Lifetimes == {Absent, 0, 30, 60000}
Times == {100000, 200000}
EventTimes == {10000, 40000, 99000}

\* the rooms the client knows, and one it does not
KnownRooms == {"!a", "!b"}
GcRooms == KnownRooms \cup {"!c"}

\* normMs: null stays undefined; a positive value below 60 000 is taken
\* for seconds
normMs(v) ==
  IF v = Absent THEN Absent
  ELSE IF v > 0 /\ v < SecondsBelow THEN v * 1000
  ELSE v

\* An event of a live timeline: its place of arrival, getTs(), and
\* event.redacted_because: none, a redaction of the server, or the mark of
\* the sweep.
GcEvent(id, ts, mark) == [id |-> id, ts |-> ts, mark |-> mark]

\* the operation of the module that ran last, when the last step was one:
\* the room run() was called for, the client it read the room from, and the
\* client the context exposed at that moment (0 is null)
NoRun == [room |-> "", client |-> 0, ctx |-> 0]

\* The module's state after load, with the SDK's stores empty.  The clients
\* are the MatrixClient instances of the page; each has its own room objects.
\*   now        Date.now()
\*   ret        content.max_lifetime of each known room's retention state
\*   tl         room.getLiveTimeline().getEvents() of each known room, in
\*              each client
\*   scheduled  the module's Set of room ids
\*   owner      the client in the closure of each scheduled room's run()
\*   last       history: the run() of the last step
\*   asked      history: the clients scheduleRetentionGC was called with
\*   sweeps     run() calls made by scheduleRetentionGC itself, per room
\*   timers     setInterval timers created, per room
\*   calls      scheduleRetentionGC calls so far
\*   sent       requests the module sent to the homeserver
GcFresh ==
  [now |-> 100000,
   ret |-> [r \in KnownRooms |-> Absent],
   tl |-> [c \in 1..MaxClients |-> [r \in KnownRooms |-> <<>>]],
   scheduled |-> {},
   owner |-> [r \in GcRooms |-> 0],
   last |-> NoRun,
   asked |-> {},
   sweeps |-> [r \in GcRooms |-> 0],
   timers |-> [r \in GcRooms |-> 0],
   calls |-> 0,
   sent |-> 0]

\* ------------------------------------------------------------- helpers
\* paginateBack(roomId, batches, limitPerBatch) in flight:
\*   st       "idle", "wait" (a paginateEventTimeline request is awaited),
\*            "done" (it returned loaded) or "failed" (it rejected)
\*   blocked  it returned at `if (!client)` or `if (!room)`
\*   i        the loop variable
\*   reqs, mores, ends, throws   history: requests issued, and answered with
\*            more history, with no more history, by rejecting
NoPaginate ==
  [st |-> "idle", blocked |-> FALSE, batches |-> 0, limit |-> 0, i |-> 0, loaded |-> 0,
   reqs |-> 0, mores |-> 0, ends |-> 0, throws |-> 0]

\* the rooms of the helpers' arguments: what client.getRoom(roomId) gives
\* and what room.isEncrypted() says
UiRooms == {"!plain", "!enc", "!gone"}
RoomStore == [r \in UiRooms |-> CASE r = "!plain" -> "plain"
                                   [] r = "!enc" -> "encrypted"
                                   [] OTHER -> "unknown"]

\* importRoomKeysFromFile(file) in flight:
\*   st         "idle", "init" (maybeInitCrypto is awaited), "try" (an import
\*              attempt is awaited) or "done"
\*   c          the client of its closure
\*   file       what file.text() gives
\*   cIm, mIm   the crypto object, the client, has an importRoomKeys method
\*   paths      tryPaths
\*   tried      history: the attempts made, in order
\*   won        history: the attempt that succeeded (0: none)
\*   okAlerts, failAlerts   history: alerts 'Keys imported…', 'Import failed: …'
\*   failMsg    history: the error of the last 'Import failed' alert
\*   lastErr    the attempt whose error lastErr holds
NoImport ==
  [st |-> "idle", c |-> 0, file |-> "", cIm |-> FALSE, mIm |-> FALSE, paths |-> <<>>,
   tried |-> <<>>, won |-> 0, okAlerts |-> 0, failAlerts |-> 0, failMsg |-> "",
   lastErr |-> ""]

\* ensureRoomEncrypted(roomId), createEncryptedRoom(name) or
\* createEncryptedDM(userId) in flight:
\*   st     "idle", "init" (maybeInitCrypto is awaited), "req" (the request it
\*          sent is awaited) or "done"
\*   kind   "encrypt", "room" or "dm"
\*   c      the client of its closure
\*   room   the roomId argument
\*   res    how it ended: "ok", the message of the Error it threw, or
\*          "rejected" when its request rejected
\*   inits  history: ensureCrypto calls it made
\*   reqs   history: the requests it sent
NoHelper ==
  [st |-> "idle", kind |-> "", c |-> 0, room |-> "", res |-> "", inits |-> 0, reqs |-> <<>>]

\* RoomView.sendMessage() in flight:
\*   st     "idle", "encrypting" (encryptRoomNow is awaited), "sending"
\*          (sendEvent is awaited) or "done"
\*   room   boundRoom
\*   sent   history: the bodies it called sendEvent with
NoSend == [st |-> "idle", room |-> "", sent |-> <<>>]

\* ------------------------------------------------------------- room navigation
\* Room ids of the navigation: two rooms the account is in, the room
\* onNewRoom / onNewDM creates, and an id no room of the account has.
JoinedIds == {"!a:x", "!b:x"}
CreatedId == "!n:x"
StrangerId == "!z:x"
NavIds == JoinedIds \cup {CreatedId, StrangerId}

\* waitForRoom(ms = 8000), const step = 200
PollMs == 8000
PollStep == 200
NoPoll == [on |-> FALSE, id |-> "", t |-> 0]

\* Shell, RoomList and RoomView:
\*   hash          what window.location.hash has after '#/room/' ("" when
\*                 the hash has no such part)
\*   hashEv        a hashchange event is queued
\*   active        RoomList: active
\*   activeRoomId  Shell: activeRoomId ("" is null)
\*   list          the roomIds of the context's rooms, in their order
\*   store         the roomIds client.getRoom() finds
\*   boundRoom     RoomView: boundRoom ("" is undefined), by its roomId
\*   poll          RoomView: the waitForRoom loop in flight
\*   create        onNewRoom / onNewDM: "idle", "creating", "joining"
\*   made          history: selectRoom(CreatedId) was called by onNew*
NavFresh ==
  [hash |-> "", hashEv |-> FALSE, active |-> "", activeRoomId |-> "",
   list |-> <<>>, store |-> {}, boundRoom |-> "", poll |-> NoPoll,
   create |-> "idle", made |-> FALSE]

\* ------------------------------------------------------------- Login page
\* loginToken values of the URL
Tokens == {"tokA", "tokB"}

\* The Login page and what outlives a page load:
\*   url       the loginToken of the URL ("" when it has none)
\*   guard     the tokens t with sessionStorage['vanish.sso.used:' + t]
\*   flights   the finishSsoLoginWithToken calls of this page in flight
\*   loggedIn  App: loggedIn
\*   error     Login: error is set
\*   calls     history: finishSsoLoginWithToken calls per token
\*   fails     history: those that threw
\*   won       history: tokens whose call returned
NoSso ==
  [url |-> "", guard |-> {}, flights |-> {}, loggedIn |-> FALSE, error |-> FALSE,
   calls |-> [t \in Tokens |-> 0], fails |-> [t \in Tokens |-> 0], won |-> {}]

\*   room      the room store of the client
\*   enabling  rooms an enable-encryption request is under way for
\*   created   history: preset and encryption algorithm of the rooms created
\*   input     the value of RoomView's textarea
UiFresh ==
  [room |-> RoomStore,
   enabling |-> {},
   created |-> {},
   input |-> "",
   pb |-> NoPaginate,
   imp |-> NoImport,
   h |-> NoHelper,
   send |-> NoSend,
   nav |-> NavFresh,
   sso |-> NoSso]

\* ------------------------------------------------------------- clients
\* A MatrixClient instance as the provider sees it.
\*   cred      the credentials it was created with
\*   stores    the IndexedDB stores were attached
\*   crypto    hasCrypto(c)
\*   bound     how often bindClient(c) ran; cap is the cryptoEnabled value
\*             the closure of its sync handler holds
\*   running   startClient was called and stopClient was not
\*   early     startClient was called while no listener was bound
\*   rooms     what getVisibleRooms() returns
\*   spc       where start(c) stands
\*   ec        where the ensureCrypto(c) call of start, of the post-login
\*             kick and of the [client] effect stands
\*   cancelled the cleanup of the [client] effect ran
Origins == {"start", "kick", "eff"}
NewClient(cred) ==
  [cred |-> cred, stores |-> FALSE, crypto |-> FALSE, bound |-> 0, cap |-> FALSE,
   running |-> FALSE, early |-> FALSE, rooms |-> <<>>, spc |-> "none",
   ec |-> [o \in Origins |-> "none"], cancelled |-> FALSE]

SyncStates == {"PREPARED", "SYNCING", "CATCHUP", "ERROR", "STOPPED", "RECONNECTING"}
RoomEvents == {"Room", "Room.timeline", "Room.name", "Room.accountData",
               "deleteRoom", "Room.receipt"}

VARIABLES
  rev,              \* the revision of the provider that runs
  hsStore,          \* localStorage[HS_STORAGE_KEY]
  session,          \* localStorage[SESSION_KEY]
  mounted,          \* the provider's mount effects ran
  nClients,         \* MatrixClient instances created since the page loaded
  cl,               \* the instances
  client,           \* context: client (0 is null)
  homeserver,       \* context: homeserver
  ready,            \* context: ready
  syncing,          \* context: syncing
  rooms,            \* context: rooms
  cryptoEnabled,    \* context: cryptoEnabled
  keyBackupEnabled, \* context: keyBackupEnabled
  started,          \* startedRef.current
  effClient,        \* the client the [client] effect last ran for
  pending,          \* login requests in flight
  kbq,              \* isKeyBackupEnabled queries in flight, oldest first
  lo,               \* logout() in flight: the client its closure holds, or -1
  lastLogin,        \* history: credentials of the latest successful login
  loggedOut,        \* history: logout() was called since the page loaded
  loginFailed,      \* history: a login function threw since the page loaded
  ignored,          \* history: startWithAccessToken returned at its argument check
  kbStale,          \* history: how many of the oldest queries in kbq were issued
                    \* before a query that has been answered
  gc,               \* the retention GC module and the timelines it sweeps
  ui                \* the context's helper functions in flight, and the
                    \* rooms and requests they deal with

provider == <<rev, hsStore, session, mounted, nClients, cl, client, homeserver, ready,
              syncing, rooms, cryptoEnabled, keyBackupEnabled, started, effClient,
              pending, kbq, lo, lastLogin, loggedOut, loginFailed, ignored,
              kbStale>>

vars == <<provider, gc, ui>>

Clients == 1..MaxClients
Live == 1..nClients

\* What a page load leaves: everything but localStorage is fresh.
Fresh ==
  /\ mounted = FALSE
  /\ nClients = 0
  /\ cl = [c \in Clients |-> NewClient(NoCred)]
  /\ client = 0
  /\ homeserver = HsAbsent
  /\ ready = FALSE
  /\ syncing = FALSE
  /\ rooms = <<>>
  /\ cryptoEnabled = FALSE
  /\ keyBackupEnabled = FALSE
  /\ started = FALSE
  /\ effClient = 0
  /\ pending = {}
  /\ kbq = <<>>
  /\ lo = -1
  /\ loggedOut = FALSE
  /\ loginFailed = FALSE
  /\ ignored = FALSE
  /\ kbStale = 0
  /\ gc = GcFresh
  /\ ui = UiFresh

\* localStorage as an earlier visit may have left it
StoredSessions ==
  {NoSession, Garbage, JsonStringify(CredA),
   JsonStringify([userId |-> "u1", accessToken |-> "", deviceId |-> Undef])}
StoredHs == {HsAbsent, HsStored(EmptyHs), HsStored(Hs("https://", "hs.org"))}

Init ==
  /\ rev \in Revisions
  /\ hsStore \in StoredHs
  /\ session \in StoredSessions
  /\ Fresh
  /\ lastLogin = NoCred

\* ------------------------------------------------------------- start()

\* The part of start(c) up to its first await, on the record cr of a client
\* just created; cap is the cryptoEnabled of the closure start belongs to.
\*   no token           -> "aborted"
\*   startedRef.current -> "noop"
\*   otherwise startedRef.current = true and the store import begins
startOutcomeUnguarded(cr, isStarted) ==
  IF ~nonEmpty(cr.cred.accessToken) THEN "aborted" ELSE "ran"

startOutcomeNoTokenCheck(cr, isStarted) == IF isStarted THEN "noop" ELSE "ran"

startOutcome(cr, isStarted) ==
  IF ~nonEmpty(cr.cred.accessToken) THEN "aborted"
  ELSE IF isStarted THEN "noop"
  ELSE "ran"

startPrefix(cr, isStarted, cap) ==
  IF startOutcome(cr, isStarted) = "ran"
  THEN [cr EXCEPT !.spc = "stores", !.cap = cap]
  ELSE cr

\* c.startClient(...): "safe to call redundantly"
startClient(cr) ==
  [cr EXCEPT !.running = TRUE, !.early = cr.early \/ cr.bound = 0]

\* bindClient(c): one more set of listeners on c
bindClient(cr) == [cr EXCEPT !.bound = IF cr.bound < 2 THEN cr.bound + 1 ELSE 2]

\* where start(c) stands once startClient resolved
afterStart == CASE rev = 1 -> "timer" [] rev = 2 -> "poll" [] OTHER -> "done"

\* What follows `await ensureCrypto(c)` in its caller, on the client record:
\* start binds the listeners and starts the client; the others do nothing
\* to the client.
contClientNeedsCrypto(cr, o) ==
  LET done == [cr EXCEPT !.ec[o] = "none"]
  IN  IF o = "start" /\ cr.crypto
      THEN [startClient(bindClient(done)) EXCEPT !.spc = afterStart]
      ELSE done

contClient(cr, o) ==
  LET done == [cr EXCEPT !.ec[o] = "none"]
  IN  IF o = "start"
      THEN [startClient(bindClient(done)) EXCEPT !.spc = afterStart]
      ELSE done

\* ... and on cryptoEnabled: setCryptoEnabled(ok), unless the effect that
\* asked was cleaned up
contCrypto(cr, o, ok) ==
  IF o = "eff" /\ cr.cancelled THEN cryptoEnabled ELSE ok

\* ensureCrypto(c) up to its first await: revisions 1 and 2 return true at
\* once when crypto is there; otherwise the crypto initialisation is called.
ecReturnsAtOnce(cr) == rev \in {1, 2} /\ cr.crypto

\* ------------------------------------------------------------- mount
\* The auto-restore effect.  runs = 2 is React.StrictMode's second run of
\* the mount effects, which follows the first with nothing in between.
StoredHsString == IF hsStore.kind = "set" THEN hsStore.val ELSE EmptyHs
RestoreHsDefault == Hs("https://", "hs.org")

RestoreHs == IF rev = 1 THEN StoredHsString ELSE normHs(StoredHsString)

Mount(runs) ==
  /\ ~mounted
  /\ mounted' = TRUE
  /\ LET hs == RestoreHs
         parsed == JsonParse(session)
         s == parsed.val
     IN  IF hs = EmptyHs \/ session.kind = "none"
         THEN UNCHANGED <<session, hsStore, nClients, cl, client, homeserver, started>>
         ELSE IF ~parsed.ok \/ ~nonEmpty(s.userId) \/ ~nonEmpty(s.accessToken)
         THEN /\ session' = NoSession
              /\ UNCHANGED <<hsStore, nClients, cl, client, homeserver, started>>
         ELSE /\ nClients' = runs
              /\ cl' = [c \in Clients |->
                          IF c = 1 THEN startPrefix(NewClient(s), started, cryptoEnabled)
                          ELSE IF c <= runs THEN startPrefix(NewClient(s), TRUE, cryptoEnabled)
                          ELSE cl[c]]
              /\ client' = runs
              /\ homeserver' = HsStored(hs)
              /\ started' = TRUE
              \* revision 3 restores through startWithAccessToken, which
              \* writes both keys again
              /\ hsStore' = IF rev = 3 THEN HsStored(normHs(hs)) ELSE hsStore
              /\ session' = IF rev = 3 THEN JsonStringify(s) ELSE session
  /\ UNCHANGED <<gc, ui, kbStale, ignored, rev, ready, syncing, rooms, cryptoEnabled, keyBackupEnabled,
                 effClient, pending, kbq, lo, lastLogin, loggedOut, loginFailed>>

\* ------------------------------------------------------------- login
LoginKinds == {"password", "sso"}

\* initPasswordLogin / finishSsoLoginWithToken up to `await temp.login(...)`:
\* hs = normHs(homeserver) is computed and the request is sent; the closure
\* keeps hs and the cryptoEnabled of the render it was made in.
LoginCall(kind, hsIn) ==
  /\ mounted
  /\ Cardinality(pending) < MaxPending
  /\ LET p == [kind |-> kind, hs |-> normHs(hsIn), cap |-> cryptoEnabled]
     IN  /\ p \notin pending
         /\ pending' = pending \cup {p}
  /\ UNCHANGED <<gc, ui, kbStale, ignored, rev, hsStore, session, mounted, nClients, cl, client, homeserver,
                 ready, syncing, rooms, cryptoEnabled, keyBackupEnabled, started,
                 effClient, kbq, lo, lastLogin, loggedOut, loginFailed>>

\* the SDK login call rejects: the login function throws
LoginReject(p) ==
  /\ p \in pending
  /\ pending' = pending \ {p}
  /\ loginFailed' = TRUE
  /\ UNCHANGED <<gc, ui, kbStale, ignored, rev, hsStore, session, mounted, nClients, cl, client, homeserver,
                 ready, syncing, rooms, cryptoEnabled, keyBackupEnabled, started,
                 effClient, kbq, lo, lastLogin, loggedOut>>

\* What the login functions do once the response raw is there.  persistFirst
\* is the order of a variant that writes localStorage before it validates.
loginOutcome(p, raw, persistFirst) ==
  LET norm == normalizeLoginResult(raw)
      res == norm.res
      hs == p.hs
      c == nClients + 1
      \* revision 1 kicks ensureCrypto(c) after a password login: the new
      \* client has no crypto, so initCrypto is called
      kicked == IF rev = 1 /\ p.kind = "password"
                THEN [NewClient(res) EXCEPT !.ec["kick"] = "init"]
                ELSE NewClient(res)
  IN  /\ loginFailed' = (loginFailed \/ ~norm.ok)
      /\ IF ~norm.ok
         THEN /\ hsStore' = IF persistFirst THEN HsStored(hs) ELSE hsStore
              /\ session' = IF persistFirst THEN JsonStringify(res) ELSE session
              /\ UNCHANGED <<nClients, cl, client, homeserver, started, lastLogin>>
         ELSE /\ nClients < MaxClients
              /\ hsStore' = HsStored(hs)
              /\ session' = JsonStringify(res)
              /\ nClients' = c
              /\ homeserver' = HsStored(hs)
              /\ client' = c
              /\ cl' = [cl EXCEPT ![c] = startPrefix(kicked, started, p.cap)]
              /\ started' = (started \/ startOutcome(kicked, started) = "ran")
              /\ lastLogin' = res
      /\ UNCHANGED <<gc, kbStale, ignored, rev, mounted, ready, syncing, rooms, cryptoEnabled,
                     keyBackupEnabled, effClient, kbq, lo, loggedOut>>

\* the awaited login request of a call made through the context resolves
LoginDone(p, raw, persistFirst) ==
  /\ p \in pending
  /\ pending' = pending \ {p}
  /\ loginOutcome(p, raw, persistFirst)
  /\ UNCHANGED ui

LoginResolveEager(p, raw) == LoginDone(p, raw, TRUE)

LoginResolve(p, raw) == LoginDone(p, raw, FALSE)

\* the arguments startWithAccessToken is called with
TokenArgs ==
  {CredA, CredB,
   [userId |-> "u1", accessToken |-> "", deviceId |-> Undef],
   [userId |-> NonStr, accessToken |-> "t1", deviceId |-> "d1"]}

StartWithAccessToken(hsIn, a) ==
  /\ mounted
  /\ IF ~nonEmpty(a.userId) \/ ~nonEmpty(a.accessToken)
     THEN /\ ignored' = TRUE
          /\ UNCHANGED <<hsStore, session, nClients, cl, client, homeserver, started,
                         lastLogin>>
     ELSE LET hs == normHs(hsIn)
              c == nClients + 1
          IN  /\ nClients < MaxClients
              /\ UNCHANGED ignored
              /\ nClients' = c
              /\ hsStore' = HsStored(hs)
              /\ session' = JsonStringify(a)
              /\ homeserver' = HsStored(hs)
              /\ client' = c
              /\ cl' = [cl EXCEPT ![c] = startPrefix(NewClient(a), started, cryptoEnabled)]
              /\ started' = (started \/ startOutcome(NewClient(a), started) = "ran")
              /\ lastLogin' = a
  /\ UNCHANGED <<gc, ui, kbStale, rev, mounted, ready, syncing, rooms, cryptoEnabled, keyBackupEnabled,
                 effClient, pending, kbq, lo, loggedOut, loginFailed>>

\* start(c) called on a client created with credentials a, by a caller that
\* does nothing else
StartArgs ==
  TokenArgs \cup {[userId |-> "u1", accessToken |-> Undef, deviceId |-> "d1"],
                  [userId |-> "u1", accessToken |-> NonStr, deviceId |-> "d1"]}

Start(a) ==
  /\ nClients < MaxClients
  /\ nClients' = nClients + 1
  /\ cl' = [cl EXCEPT ![nClients + 1] = startPrefix(NewClient(a), started, cryptoEnabled)]
  /\ started' = (started \/ startOutcome(NewClient(a), started) = "ran")
  /\ UNCHANGED <<gc, ui, kbStale, ignored, rev, hsStore, session, mounted, client, homeserver, ready,
                 syncing, rooms, cryptoEnabled, keyBackupEnabled, effClient, pending,
                 kbq, lo, lastLogin, loggedOut, loginFailed>>

\* ------------------------------------------------------------- ensureCrypto
\* the [client] effect of revisions 1 and 2: the cleanup of the run before,
\* then ensureCrypto(client) for the client now in state
ClientEffect ==
  /\ mounted
  /\ rev \in {1, 2}
  /\ effClient # client
  /\ effClient' = client
  /\ LET cleaned == IF effClient = 0 THEN cl
                    ELSE [cl EXCEPT ![effClient].cancelled = TRUE]
     IN  IF client = 0
         THEN /\ cl' = cleaned
              /\ UNCHANGED cryptoEnabled
         ELSE IF ecReturnsAtOnce(cl[client])
         THEN /\ cl' = cleaned
              /\ cryptoEnabled' = TRUE
         ELSE /\ cl' = [cleaned EXCEPT ![client].ec["eff"] = "init"]
              /\ UNCHANGED cryptoEnabled
  /\ UNCHANGED <<gc, ui, kbStale, ignored, rev, hsStore, session, mounted, nClients, client, homeserver, ready,
                 syncing, rooms, keyBackupEnabled, started, pending, kbq, lo,
                 lastLogin, loggedOut, loginFailed>>

\* start(c): the store import and startup ended (attached or not), and
\* ensureCrypto(c) runs up to its first await
StoresDone(c, attached) ==
  /\ c \in Live
  /\ cl[c].spc = "stores"
  /\ LET withStores == [cl[c] EXCEPT !.stores = attached, !.spc = "crypto"]
     IN  IF ecReturnsAtOnce(withStores)
         THEN /\ cl' = [cl EXCEPT ![c] = contClient(withStores, "start")]
              /\ cryptoEnabled' = TRUE
         ELSE /\ cl' = [cl EXCEPT ![c] = [withStores EXCEPT !.ec["start"] = "init"]]
              /\ UNCHANGED cryptoEnabled
  /\ UNCHANGED <<gc, ui, kbStale, ignored, rev, hsStore, session, mounted, nClients, client, homeserver, ready,
                 syncing, rooms, keyBackupEnabled, started, effClient, pending, kbq,
                 lo, lastLogin, loggedOut, loginFailed>>

\* how the SDK's crypto initialisation ends: crypto is there, it resolved
\* without crypto, or it threw
InitOutcomes == {"on", "off", "throw"}

\* ensureCrypto(c) of revision 1 after initCrypto: on a throw it returns
\* false; otherwise it calls startClient and awaits it
ecAfterInit1(cr, o, outcome) ==
  IF outcome = "throw" THEN contClient(cr, o)
  ELSE [startClient(cr) EXCEPT !.ec[o] = "run"]

ecAfterInit(cr, o, outcome) ==
  IF rev = 1 THEN ecAfterInit1(cr, o, outcome)
  ELSE contClient(cr, o)

\* what ensureCrypto returns when it returns right after the initialisation
ecResult(cr, outcome) == outcome # "throw" /\ cr.crypto

EcInitDone(c, o, outcome) ==
  /\ c \in Live
  /\ cl[c].ec[o] = "init"
  /\ LET inited == [cl[c] EXCEPT !.crypto = (cl[c].crypto \/ outcome = "on")]
         returns == rev # 1 \/ outcome = "throw"
     IN  /\ cl' = [cl EXCEPT ![c] = ecAfterInit(inited, o, outcome)]
         /\ cryptoEnabled' = IF returns
                             THEN contCrypto(inited, o, ecResult(inited, outcome))
                             ELSE cryptoEnabled
  /\ UNCHANGED <<gc, ui, kbStale, ignored, rev, hsStore, session, mounted, nClients, client, homeserver, ready,
                 syncing, rooms, keyBackupEnabled, started, effClient, pending, kbq,
                 lo, lastLogin, loggedOut, loginFailed>>

\* ensureCrypto(c) of revision 1 returns !!client.getCrypto?.() after
\* startClient resolved (and the 2 s wait, when crypto was still missing)
EcReturn(c, o) ==
  /\ c \in Live
  /\ rev = 1
  /\ cl[c].ec[o] = "run"
  /\ cl' = [cl EXCEPT ![c] = contClient(cl[c], o)]
  /\ cryptoEnabled' = contCrypto(cl[c], o, cl[c].crypto)
  /\ UNCHANGED <<gc, ui, kbStale, ignored, rev, hsStore, session, mounted, nClients, client, homeserver, ready,
                 syncing, rooms, keyBackupEnabled, started, effClient, pending, kbq,
                 lo, lastLogin, loggedOut, loginFailed>>

\* ------------------------------------------------------------- the bridge
refreshedStale(cr, isArray) == rooms

refreshedUnsorted(cr, isArray) == roomsArray(cr.rooms, isArray)

\* refresh(): what setRooms gets
refreshed(cr, isArray) == sortRooms(roomsArray(cr.rooms, isArray))

\* state === 'SYNCING' || state === 'CATCHUP'
isSyncing(state) == state \in {"SYNCING", "CATCHUP"}

readyAfterSyncAnyRooms(cr, state, isArray) ==
  ready \/ state = "PREPARED" \/ (rev = 1 /\ isSyncing(state))

readyWhileHealthy(cr, state, isArray) ==
  state = "PREPARED" \/ (ready /\ state \notin {"ERROR", "STOPPED"})

\* ready after the sync handler saw state
readyAfterSync(cr, state, isArray) ==
  \/ ready
  \/ state = "PREPARED"
  \/ /\ rev = 1
     /\ isSyncing(state)
     /\ Len(roomsArray(cr.rooms, isArray)) > 0

\* cryptoEnabled after the sync handler saw state: revision 1 compares with
\* the cryptoEnabled of the closure bindClient was made in; revisions 2 and 3
\* set it on PREPARED only
cryptoAfterSync(cr, state) ==
  IF rev = 1
  THEN IF cr.crypto # cr.cap THEN cr.crypto ELSE cryptoEnabled
  ELSE IF state = "PREPARED" THEN cr.crypto ELSE cryptoEnabled

\* the handler awaits isKeyBackupEnabled(): when the client has crypto and
\* the method exists; in revisions 2 and 3 on PREPARED only
asksKeyBackup(cr, state, hasMethod) ==
  /\ cr.crypto
  /\ hasMethod
  /\ rev = 1 \/ state = "PREPARED"

\* what the awaiting handler still needs of its state: revisions 2 and 3
\* call setSyncing with it after the await, revision 1 called it before
awaited(state) == IF rev = 1 THEN "" ELSE state

\* The SDK emits 'sync' with a state on a running client that has listeners.
\* In revisions 2 and 3 setSyncing comes after the awaited key-backup query.
SyncEvent(c, state, isArray, hasMethod) ==
  /\ c \in Live
  /\ cl[c].running
  /\ cl[c].bound > 0
  /\ LET asks == asksKeyBackup(cl[c], state, hasMethod)
         deferred == asks /\ rev # 1
     IN  /\ asks => Len(kbq) < MaxKb
         /\ ready' = readyAfterSync(cl[c], state, isArray)
         /\ rooms' = IF state = "PREPARED" THEN refreshed(cl[c], isArray) ELSE rooms
         /\ syncing' = IF deferred THEN syncing ELSE isSyncing(state)
         /\ cryptoEnabled' = cryptoAfterSync(cl[c], state)
         /\ kbq' = IF asks THEN Append(kbq, awaited(state)) ELSE kbq
  /\ UNCHANGED <<gc, ui, kbStale, ignored, rev, hsStore, session, mounted, nClients, cl, client, homeserver,
                 keyBackupEnabled, started, effClient, pending, lo, lastLogin,
                 loggedOut, loginFailed>>

KbAnswers == {"true", "false", "throw"}

\* the i-th key-backup query in flight ends; the handler that awaited it
\* goes on
KbAnswer(i, answer) ==
  /\ i \in 1..Len(kbq)
  /\ keyBackupEnabled' = IF answer = "throw" THEN keyBackupEnabled ELSE answer = "true"
  /\ syncing' = IF rev = 1 THEN syncing ELSE isSyncing(kbq[i])
  /\ kbq' = SubSeq(kbq, 1, i - 1) \o SubSeq(kbq, i + 1, Len(kbq))
  /\ kbStale' = IF i <= kbStale THEN kbStale - 1
                ELSE IF answer = "throw" THEN kbStale
                ELSE i - 1
  /\ UNCHANGED <<gc, ui, ignored, rev, hsStore, session, mounted, nClients, cl, client, homeserver,
                 ready, rooms, cryptoEnabled, started, effClient, pending, lo,
                 lastLogin, loggedOut, loginFailed>>

\* what the SDK's room array is after it emitted ev about room r
HasRoom(rs, id) == \E i \in 1..Len(rs) : rs[i].id = id
roomsAfter(rs, ev, r) ==
  CASE ev = "Room" -> Append(rs, r)
    [] ev = "deleteRoom" -> SelectSeq(rs, LAMBDA x : x.id # r.id)
    [] ev = "Room.timeline" -> [i \in 1..Len(rs) |-> IF rs[i].id = r.id THEN r ELSE rs[i]]
    [] OTHER -> rs

CanEmit(rs, ev, r) ==
  CASE ev = "Room" -> Len(rs) < MaxRooms /\ (r.id # 0 => ~HasRoom(rs, r.id))
    [] ev = "deleteRoom" -> r.id # 0 /\ HasRoom(rs, r.id)
    [] ev = "Room.timeline" -> r.id # 0 /\ HasRoom(rs, r.id)
    [] OTHER -> r = Null

\* The SDK changes the rooms of a running client and emits ev; the listeners,
\* when bound, refresh (and revision 1 marks ready on 'Room').
RoomEvent(c, ev, r, isArray) ==
  /\ c \in Live
  /\ cl[c].running
  /\ CanEmit(cl[c].rooms, ev, r)
  /\ LET after == [cl[c] EXCEPT !.rooms = roomsAfter(cl[c].rooms, ev, r)]
     IN  /\ cl' = [cl EXCEPT ![c] = after]
         /\ rooms' = IF after.bound > 0 THEN refreshed(after, isArray) ELSE rooms
         /\ ready' = (ready \/ ( /\ rev = 1
                                 /\ ev = "Room"
                                 /\ after.bound > 0
                                 /\ Len(roomsArray(after.rooms, isArray)) > 0 ))
  /\ UNCHANGED <<gc, ui, kbStale, ignored, rev, hsStore, session, mounted, nClients, client, homeserver,
                 syncing, cryptoEnabled, keyBackupEnabled, started, effClient,
                 pending, kbq, lo, lastLogin, loggedOut, loginFailed>>

\* ------------------------------------------------------------- after startClient
FallbackTimerIdle(c, isArray) ==
  /\ c \in Live
  /\ rev = 1
  /\ cl[c].spc = "timer"
  /\ cl' = [cl EXCEPT ![c].spc = "done"]
  /\ UNCHANGED <<gc, ui, kbStale, ignored, rev, hsStore, session, mounted, nClients, client, homeserver, ready,
                 rooms, syncing, cryptoEnabled, keyBackupEnabled, started, effClient,
                 pending, kbq, lo, lastLogin, loggedOut, loginFailed>>

\* revision 1: the 3 s fallback nudge set once startClient resolved
FallbackTimer(c, isArray) ==
  /\ c \in Live
  /\ rev = 1
  /\ cl[c].spc = "timer"
  /\ cl' = [cl EXCEPT ![c].spc = "done"]
  /\ LET anyRooms == Len(roomsArray(cl[c].rooms, isArray)) > 0
     IN  /\ ready' = (ready \/ anyRooms)
         /\ rooms' = IF anyRooms THEN refreshed(cl[c], isArray) ELSE rooms
  /\ UNCHANGED <<gc, ui, kbStale, ignored, rev, hsStore, session, mounted, nClients, client, homeserver,
                 syncing, cryptoEnabled, keyBackupEnabled, started, effClient,
                 pending, kbq, lo, lastLogin, loggedOut, loginFailed>>

\* revision 2: checkCryptoReady, every 500 ms until crypto is there or the
\* retries are used up.  A retry that finds no crypto changes nothing but the
\* retry count, and no time passes in this model, so the poll is one step:
\* it finds crypto, or it has given up.
CheckCryptoReady(c) ==
  /\ c \in Live
  /\ rev = 2
  /\ cl[c].spc = "poll"
  /\ cryptoEnabled' = (cryptoEnabled \/ cl[c].crypto)
  /\ cl' = [cl EXCEPT ![c].spc = "done"]
  /\ UNCHANGED <<gc, ui, kbStale, ignored, rev, hsStore, session, mounted, nClients, client, homeserver, ready,
                 syncing, rooms, keyBackupEnabled, started, effClient, pending, kbq,
                 lo, lastLogin, loggedOut, loginFailed>>

\* ------------------------------------------------------------- logout
\* logout() up to `await client?.logout?.()`; its closure holds the client
\* of the render it was made in
LogoutCall ==
  /\ mounted
  /\ lo = -1
  /\ lo' = client
  /\ loggedOut' = TRUE
  /\ UNCHANGED <<gc, ui, kbStale, ignored, rev, hsStore, session, mounted, nClients, cl, client, homeserver,
                 ready, syncing, rooms, cryptoEnabled, keyBackupEnabled, started,
                 effClient, pending, kbq, lastLogin, loginFailed>>

\* window.location.reload(): a new page on the same localStorage
Reload ==
  /\ mounted' = FALSE
  /\ nClients' = 0
  /\ cl' = [c \in Clients |-> NewClient(NoCred)]
  /\ client' = 0
  /\ homeserver' = HsAbsent
  /\ ready' = FALSE
  /\ syncing' = FALSE
  /\ rooms' = <<>>
  /\ cryptoEnabled' = FALSE
  /\ keyBackupEnabled' = FALSE
  /\ started' = FALSE
  /\ effClient' = 0
  /\ pending' = {}
  /\ kbq' = <<>>
  /\ lo' = -1
  /\ loggedOut' = FALSE
  /\ loginFailed' = FALSE
  /\ ignored' = FALSE
  /\ kbStale' = 0
  /\ gc' = GcFresh
  /\ ui' = UiFresh

\* The rest of logout(): the SDK's logout and stopClient ended, each by
\* resolving or by throwing; stopClient stops the client when it does not
\* throw.  Revisions 1 and 2 reload the page; revision 3 resets the context.
LogoutFinishKeep(logoutOk, stopOk) ==
  /\ lo # -1
  /\ session' = IF logoutOk /\ stopOk THEN NoSession ELSE session
  /\ IF rev \in {1, 2}
     THEN Reload
     ELSE /\ cl' = IF lo # 0 /\ stopOk THEN [cl EXCEPT ![lo].running = FALSE] ELSE cl
          /\ client' = 0
          /\ rooms' = <<>>
          /\ ready' = FALSE
          /\ syncing' = FALSE
          /\ started' = FALSE
          /\ lo' = -1
          /\ UNCHANGED <<gc, ui, kbStale, ignored, mounted, nClients, homeserver, cryptoEnabled,
                         keyBackupEnabled, effClient, pending, kbq, loggedOut, loginFailed>>
  /\ UNCHANGED <<rev, hsStore, lastLogin>>

LogoutFinish(logoutOk, stopOk) ==
  /\ lo # -1
  /\ session' = NoSession
  /\ IF rev \in {1, 2}
     THEN Reload
     ELSE /\ cl' = IF lo # 0 /\ stopOk THEN [cl EXCEPT ![lo].running = FALSE] ELSE cl
          /\ client' = 0
          /\ rooms' = <<>>
          /\ ready' = FALSE
          /\ syncing' = FALSE
          /\ started' = FALSE
          /\ lo' = -1
          /\ UNCHANGED <<gc, ui, kbStale, ignored, mounted, nClients, homeserver, cryptoEnabled,
                         keyBackupEnabled, effClient, pending, kbq, loggedOut, loginFailed>>
  /\ UNCHANGED <<rev, hsStore, lastLogin>>

\* ------------------------------------------------------------- paginateBack
MaxBatches == 3
Limits == {50, 60}
PageAnswers == {"more", "end", "throw"}

\* paginateBack up to its first await
paginateCall(hasClient, known, batches, limit) ==
  IF ~hasClient \/ ~known
  THEN [NoPaginate EXCEPT !.st = "done", !.blocked = TRUE, !.batches = batches, !.limit = limit]
  ELSE IF 0 < batches
  THEN [NoPaginate EXCEPT !.st = "wait", !.batches = batches, !.limit = limit, !.reqs = 1]
  ELSE [NoPaginate EXCEPT !.st = "done", !.batches = batches, !.limit = limit]

paginateStepNoBreak(p, ans) ==
  LET more == ans = "more"
      next == [p EXCEPT !.i = p.i + 1,
                        !.loaded = IF more THEN p.loaded + p.limit ELSE p.loaded,
                        !.mores = IF more THEN p.mores + 1 ELSE p.mores,
                        !.ends = IF more THEN p.ends ELSE p.ends + 1]
  IN  IF ans = "throw" THEN [p EXCEPT !.st = "failed", !.throws = p.throws + 1]
      ELSE IF next.i < p.batches THEN [next EXCEPT !.reqs = p.reqs + 1]
      ELSE [next EXCEPT !.st = "done"]

\* the awaited paginateEventTimeline settles and the loop goes on
paginateStep(p, ans) ==
  CASE ans = "throw" -> [p EXCEPT !.st = "failed", !.throws = p.throws + 1]
    [] ans = "end" -> [p EXCEPT !.st = "done", !.ends = p.ends + 1]
    [] OTHER ->
         LET next == [p EXCEPT !.i = p.i + 1, !.loaded = p.loaded + p.limit,
                               !.mores = p.mores + 1]
         IN  IF next.i < p.batches THEN [next EXCEPT !.reqs = p.reqs + 1]
             ELSE [next EXCEPT !.st = "done"]

PaginateBack(r, batches, limit) ==
  /\ mounted
  /\ ui.pb.st # "wait"
  /\ ui' = [ui EXCEPT !.pb = paginateCall(client # 0, ui.room[r] # "unknown", batches, limit)]
  /\ UNCHANGED <<provider, gc>>

PaginateAnswer(ans) ==
  /\ ui.pb.st = "wait"
  /\ ui' = [ui EXCEPT !.pb = paginateStep(ui.pb, ans)]
  /\ UNCHANGED <<provider, gc>>

\* ------------------------------------------------------------- maybeInitCrypto
\* The client after the ensureCrypto(client) that maybeInitCrypto awaits,
\* taken as one step: the crypto initialisation ended with outcome, and
\* revision 1 went on to startClient when it did not throw.
helperInit(cr, outcome) ==
  LET inited == [cr EXCEPT !.crypto = (cr.crypto \/ outcome = "on")]
  IN  IF rev = 1 /\ outcome # "throw" THEN startClient(inited) ELSE inited

\* ------------------------------------------------------------- importRoomKeysFromFile
\* (revisions 1 and 2; revision 3 makes one attempt)
Files == {"armoured", "json", "text"}
\* /^-{5}BEGIN MEGOLM SESSION DATA-{5}/m.test(text)
IsArmoured(f) == f = "armoured"
\* JSON.parse(text) gave a truthy value
Parses(f) == f = "json"

tryPaths(hasCryptoObj, cIm, mIm, parsed) ==
  (IF hasCryptoObj /\ cIm
   THEN <<"crypto.text">> \o (IF parsed THEN <<"crypto.parsed">> ELSE <<>>)
   ELSE <<>>)
  \o
  (IF mIm
   THEN <<"client.text">> \o (IF parsed THEN <<"client.parsed">> ELSE <<>>)
   ELSE <<>>)

\* from the moment maybeInitCrypto settled (with a crypto object, or by
\* throwing, which the catch turns into an alert and null) to the first
\* import attempt
importAfterCrypto(m, hasCryptoObj) ==
  LET told == IF hasCryptoObj THEN m
              ELSE [m EXCEPT !.failAlerts = m.failAlerts + 1, !.failMsg = "maybeInitCrypto"]
      ps == tryPaths(hasCryptoObj, m.cIm, m.mIm, Parses(m.file))
  IN  IF ~hasCryptoObj /\ ~m.mIm THEN [told EXCEPT !.st = "done"]
      ELSE IF IsArmoured(m.file) THEN [told EXCEPT !.st = "done"]
      ELSE IF ps = <<>>
      THEN [told EXCEPT !.st = "done", !.failAlerts = told.failAlerts + 1, !.failMsg = "unknown"]
      ELSE [told EXCEPT !.st = "try", !.paths = ps, !.tried = <<ps[1]>>]

\* the awaited attempt settles
importSettle(m, ok) ==
  LET k == Len(m.tried)
  IN  IF ok THEN [m EXCEPT !.st = "done", !.won = k, !.okAlerts = m.okAlerts + 1]
      ELSE IF k < Len(m.paths)
      THEN [m EXCEPT !.lastErr = m.paths[k], !.tried = Append(m.tried, m.paths[k + 1])]
      ELSE [m EXCEPT !.st = "done", !.lastErr = m.paths[k],
                     !.failAlerts = m.failAlerts + 1, !.failMsg = m.paths[k]]

ImportRoomKeysFromFile(f, cIm, mIm) ==
  /\ mounted
  /\ rev \in {1, 2}
  /\ ui.imp.st \in {"idle", "done"}
  /\ LET m == [NoImport EXCEPT !.c = client, !.file = f, !.cIm = cIm, !.mIm = mIm]
     IN  ui' = [ui EXCEPT !.imp =
                  IF client = 0 THEN [m EXCEPT !.st = "done"]
                  ELSE IF cl[client].crypto THEN importAfterCrypto(m, TRUE)
                  ELSE [m EXCEPT !.st = "init"]]
  /\ UNCHANGED <<provider, gc>>

\* the ensureCrypto of maybeInitCrypto returns: setCryptoEnabled(ok), then
\* the second hasCrypto test
ImportInit(outcome) ==
  /\ ui.imp.st = "init"
  /\ LET c == ui.imp.c
         after == helperInit(cl[c], outcome)
     IN  /\ cl' = [cl EXCEPT ![c] = after]
         /\ cryptoEnabled' = ecResult(after, outcome)
         /\ ui' = [ui EXCEPT !.imp = importAfterCrypto(ui.imp, after.crypto)]
  /\ UNCHANGED <<gc, kbStale, ignored, rev, hsStore, session, mounted, nClients, client,
                 homeserver, ready, syncing, rooms, keyBackupEnabled, started, effClient,
                 pending, kbq, lo, lastLogin, loggedOut, loginFailed>>

ImportSettle(ok) ==
  /\ ui.imp.st = "try"
  /\ ui' = [ui EXCEPT !.imp = importSettle(ui.imp, ok)]
  /\ UNCHANGED <<provider, gc>>

\* ------------------------------------------------------------- encryption helpers
Megolm == "m.megolm.v1.aes-sha2"
HelperKinds == {"encrypt", "room", "dm"}

\* setRoomEncryption(roomId, content) or sendStateEvent(roomId,
\* 'm.room.encryption', content, '')
encryptionRequest(r) ==
  [type |-> "m.room.encryption", room |-> r, algorithm |-> Megolm, preset |-> ""]

\* client.createRoom({...}) with its initial_state
createRequest(kind) ==
  [type |-> "createRoom", room |-> "", algorithm |-> Megolm,
   preset |-> IF kind = "dm" THEN "trusted_private_chat" ELSE "private_chat"]

\* client.getRoom(roomId) and room.isEncrypted?.()
roomState(u, r) == IF r \in UiRooms THEN u.room[r] ELSE "unknown"

afterGateNoCheck(h, state) ==
  IF h.kind = "encrypt"
  THEN IF state = "unknown" THEN [h EXCEPT !.st = "done", !.res = "Unknown room"]
       ELSE [h EXCEPT !.st = "req", !.reqs = Append(h.reqs, encryptionRequest(h.room))]
  ELSE [h EXCEPT !.st = "req", !.reqs = Append(h.reqs, createRequest(h.kind))]

\* the helper once maybeInitCrypto has returned, up to its next await
afterGate(h, state) ==
  IF h.kind = "encrypt"
  THEN CASE state = "unknown" -> [h EXCEPT !.st = "done", !.res = "Unknown room"]
         [] state = "encrypted" -> [h EXCEPT !.st = "done", !.res = "ok"]
         [] OTHER -> [h EXCEPT !.st = "req", !.reqs = Append(h.reqs, encryptionRequest(h.room))]
  ELSE [h EXCEPT !.st = "req", !.reqs = Append(h.reqs, createRequest(h.kind))]

afterInitLax(h, has, state) == afterGate(h, state)

\* maybeInitCrypto after its ensureCrypto: the second hasCrypto test
afterInit(h, has, state) ==
  IF ~has THEN [h EXCEPT !.st = "done", !.res = "Crypto not initialised"]
  ELSE afterGate(h, state)

\* the helper up to its first await
helperCall(kind, c, r, has, state) ==
  LET h == [NoHelper EXCEPT !.kind = kind, !.c = c, !.room = r]
  IN  IF c = 0 THEN [h EXCEPT !.st = "done", !.res = "No client"]
      ELSE IF has THEN afterGate(h, state)
      ELSE [h EXCEPT !.st = "init", !.inits = 1]

\* String.prototype.trim on the values of the textarea
Bodies == {"", "  ", " hi "}
Trim(b) == CASE b = "  " -> "" [] b = " hi " -> "hi" [] OTHER -> b

sendTailNoRecheck(u) ==
  LET body == Trim(u.input)
  IN  IF body = "" THEN [u EXCEPT !.send.st = "done"]
      ELSE [u EXCEPT !.send.st = "sending", !.send.sent = Append(u.send.sent, body)]

\* sendMessage from its second isEncrypted test on, when no encryptRoomNow
\* is needed or once it has returned
sendTail(u) ==
  LET body == Trim(u.input)
  IN  IF roomState(u, u.send.room) # "encrypted" \/ body = ""
      THEN [u EXCEPT !.send.st = "done"]
      ELSE [u EXCEPT !.send.st = "sending", !.send.sent = Append(u.send.sent, body)]

\* the helpers' state after a step of the helper in flight: the rooms it
\* asked encryption for, and the sendMessage that awaited it going on
\* (encryptRoomNow catches what ensureRoomEncrypted throws)
settled(u, h) ==
  LET asks == h.st = "req" /\ h.kind = "encrypt" /\ u.h.st # "req"
      v == [u EXCEPT !.h = h,
                     !.enabling = IF asks THEN u.enabling \cup {h.room} ELSE u.enabling]
  IN  IF v.send.st = "encrypting" /\ h.st = "done" THEN sendTail(v) ELSE v

\* ensureRoomEncrypted / createEncryptedRoom / createEncryptedDM is called
HelperCall(kind, r) ==
  /\ mounted
  /\ ui.h.st \in {"idle", "done"}
  /\ ui.send.st \in {"idle", "done"}
  /\ ui' = settled(ui, helperCall(kind, client, r,
                                  client # 0 /\ cl[client].crypto, roomState(ui, r)))
  /\ UNCHANGED <<provider, gc>>

\* the ensureCrypto of maybeInitCrypto returns: setCryptoEnabled(ok), then
\* the second hasCrypto test and the rest of the helper
HelperInit(outcome) ==
  /\ ui.h.st = "init"
  /\ LET c == ui.h.c
         after == helperInit(cl[c], outcome)
     IN  /\ cl' = [cl EXCEPT ![c] = after]
         /\ cryptoEnabled' = ecResult(after, outcome)
         /\ ui' = settled(ui, afterInit(ui.h, after.crypto, roomState(ui, ui.h.room)))
  /\ UNCHANGED <<gc, kbStale, ignored, rev, hsStore, session, mounted, nClients, client,
                 homeserver, ready, syncing, rooms, keyBackupEnabled, started, effClient,
                 pending, kbq, lo, lastLogin, loggedOut, loginFailed>>

\* the helper's request settles
HelperSettle(ok) ==
  /\ ui.h.st = "req"
  /\ LET h == [ui.h EXCEPT !.st = "done", !.res = IF ok THEN "ok" ELSE "rejected"]
         req == ui.h.reqs[Len(ui.h.reqs)]
         u == [ui EXCEPT
                 !.created = IF ok /\ req.type = "createRoom"
                             THEN ui.created \cup {[preset |-> req.preset,
                                                    algorithm |-> req.algorithm]}
                             ELSE ui.created,
                 !.enabling = IF ~ok /\ req.type = "m.room.encryption"
                              THEN ui.enabling \ {req.room}
                              ELSE ui.enabling]
     IN  ui' = settled(u, h)
  /\ UNCHANGED <<provider, gc>>

\* the m.room.encryption state event of a room reaches the client by sync
EncryptionArrives(r) ==
  /\ r \in ui.enabling
  /\ ui.room[r] = "plain"
  /\ ui' = [ui EXCEPT !.room[r] = "encrypted", !.enabling = ui.enabling \ {r}]
  /\ UNCHANGED <<provider, gc>>

\* ------------------------------------------------------------- RoomView
\* the user types
InputChange(b) ==
  /\ ui.input # b
  /\ ui' = [ui EXCEPT !.input = b]
  /\ UNCHANGED <<provider, gc>>

\* sendMessage() with boundRoom r ("" is none); confirmed is the answer to
\* 'This room is not encrypted. Encrypt it now?' when that is asked
SendMessage(r, confirmed) ==
  /\ mounted
  /\ ui.send.st \in {"idle", "done"}
  /\ ui.h.st \in {"idle", "done"}
  /\ LET u == [ui EXCEPT !.send = [NoSend EXCEPT !.room = r]]
         enc == roomState(ui, r) = "encrypted"
     IN  ui' = IF client = 0 \/ r = "" THEN [u EXCEPT !.send.st = "done"]
               ELSE IF ~enc /\ ~confirmed THEN [u EXCEPT !.send.st = "done"]
               ELSE IF ~enc
               THEN settled([u EXCEPT !.send.st = "encrypting"],
                            helperCall("encrypt", client, r, cl[client].crypto,
                                       roomState(ui, r)))
               ELSE sendTail(u)
  /\ UNCHANGED <<provider, gc>>

\* sendEvent settles
SendSettle(ok) ==
  /\ ui.send.st = "sending"
  /\ ui' = [ui EXCEPT !.send.st = "done", !.input = IF ok THEN "" ELSE ui.input]
  /\ UNCHANGED <<provider, gc>>

\* ------------------------------------------------------------- Login page: SSO
\* finishSsoLoginWithToken calls per token
MaxSsoCalls == 3

\* Login.tsx normalizeHs: trim, '' stays '', a scheme is put in front
normalizeHs(s) ==
  IF s.scheme # "" THEN s
  ELSE IF s.host # "" THEN Hs("https://", s.host)
  ELSE EmptyHs

\* new URL(u) does not throw
isValidUrl(u) == u.scheme # "" /\ u.host # ""

\* localStorage.getItem(HS_STORAGE_KEY) || d
storedOr(d) == IF hsStore.kind = "set" /\ hsStore.val # EmptyHs THEN hsStore.val ELSE d

\* hasSession() of App
hasSession == session # NoSession

ssoGuardedNever(guard, token) == FALSE

\* sessionStorage.getItem(guardKey)
ssoGuarded(guard, token) == token \in guard

\* The page is loaded: a return from the identity provider with a
\* loginToken, or a reload with the URL as it is.  localStorage and
\* sessionStorage stay, the calls in flight are gone with the old page.
PageLoad(url) ==
  /\ url = ui.sso.url \/ (url # "" /\ ~hasSession)
  /\ mounted
  /\ UNCHANGED <<rev, hsStore, session, lastLogin>>
  /\ mounted' = FALSE
  /\ nClients' = 0
  /\ cl' = [c \in Clients |-> NewClient(NoCred)]
  /\ client' = 0
  /\ homeserver' = HsAbsent
  /\ ready' = FALSE
  /\ syncing' = FALSE
  /\ rooms' = <<>>
  /\ cryptoEnabled' = FALSE
  /\ keyBackupEnabled' = FALSE
  /\ started' = FALSE
  /\ effClient' = 0
  /\ pending' = {}
  /\ kbq' = <<>>
  /\ lo' = -1
  /\ loggedOut' = FALSE
  /\ loginFailed' = FALSE
  /\ ignored' = FALSE
  /\ kbStale' = 0
  /\ gc' = GcFresh
  /\ ui' = [UiFresh EXCEPT !.sso = [ui.sso EXCEPT !.url = url, !.flights = {},
                                                  !.loggedIn = hasSession,
                                                  !.error = FALSE]]

\* Login is mounted (or mounted again): its effects run.  envDefault is
\* VITE_MATRIX_HOMESERVER_URL.  The first effect persists the normalised
\* homeserver; the second redeems the loginToken of the URL under the guard.
LoginEffects(envDefault) ==
  /\ mounted
  /\ ~ui.sso.loggedIn
  /\ LET token == ui.sso.url
         hs == normalizeHs(storedOr(normalizeHs(storedOr(envDefault))))
         f == [tok |-> token, hs |-> normHs(hs), cap |-> cryptoEnabled]
         had == ssoGuarded(ui.sso.guard, token)
         calls == token # "" /\ ~had /\ isValidUrl(hs)
     IN  /\ token # "" => ui.sso.calls[token] < MaxSsoCalls
         /\ hsStore' = IF hs # EmptyHs THEN HsStored(hs) ELSE hsStore
         /\ ui' = IF token = "" \/ had THEN ui
                  ELSE [ui EXCEPT
                          !.sso.guard = ui.sso.guard \cup {token},
                          !.sso.error = (ui.sso.error \/ ~calls),
                          !.sso.flights = IF calls THEN ui.sso.flights \cup {f}
                                          ELSE ui.sso.flights,
                          !.sso.calls[token] = IF calls THEN ui.sso.calls[token] + 1
                                               ELSE ui.sso.calls[token]]
  /\ UNCHANGED <<gc, kbStale, ignored, rev, session, mounted, nClients, cl, client,
                 homeserver, ready, syncing, rooms, cryptoEnabled, keyBackupEnabled,
                 started, effClient, pending, kbq, lo, lastLogin, loggedOut, loginFailed>>

\* loginWithToken of a call in flight rejects: finishSsoLoginWithToken
\* throws and the catch of the effect removes the guard
SsoReject(f) ==
  /\ f \in ui.sso.flights
  /\ loginFailed' = TRUE
  /\ ui' = [ui EXCEPT !.sso.flights = ui.sso.flights \ {f},
                       !.sso.guard = ui.sso.guard \ {f.tok},
                       !.sso.error = TRUE,
                       !.sso.fails[f.tok] = ui.sso.fails[f.tok] + 1]
  /\ UNCHANGED <<gc, kbStale, ignored, rev, hsStore, session, mounted, nClients, cl, client,
                 homeserver, ready, syncing, rooms, cryptoEnabled, keyBackupEnabled,
                 started, effClient, pending, kbq, lo, lastLogin, loggedOut>>

\* loginWithToken of a call in flight resolves with raw: the rest of
\* finishSsoLoginWithToken, then the effect cleans the URL and calls
\* onLoggedIn, or its catch removes the guard when normalizeLoginResult threw
SsoResolve(f, raw) ==
  /\ f \in ui.sso.flights
  /\ loginOutcome([kind |-> "sso", hs |-> f.hs, cap |-> f.cap], raw, FALSE)
  /\ ui' = IF normalizeLoginResult(raw).ok
           THEN [ui EXCEPT !.sso.flights = ui.sso.flights \ {f},
                           !.sso.url = "",
                           !.sso.loggedIn = TRUE,
                           !.sso.won = ui.sso.won \cup {f.tok}]
           ELSE [ui EXCEPT !.sso.flights = ui.sso.flights \ {f},
                           !.sso.guard = ui.sso.guard \ {f.tok},
                           !.sso.error = TRUE,
                           !.sso.fails[f.tok] = ui.sso.fails[f.tok] + 1]
  /\ UNCHANGED pending

\* ------------------------------------------------------------- Shell, RoomList, RoomView
\* encodeURIComponent escapes the ':' of a room id
encodeURIComponent(id) ==
  CASE id = "!a:x" -> "!a%3Ax"
    [] id = "!b:x" -> "!b%3Ax"
    [] id = "!n:x" -> "!n%3Ax"
    [] id = "!z:x" -> "!z%3Ax"
    [] OTHER -> id

decodeURIComponent(h) ==
  CASE h = "!a%3Ax" -> "!a:x"
    [] h = "!b%3Ax" -> "!b:x"
    [] h = "!n%3Ax" -> "!n:x"
    [] h = "!z%3Ax" -> "!z:x"
    [] OTHER -> h

\* what a user's link or the address bar can put after '#/room/': nothing,
\* an escaped id, or an id typed as it is
HashParts == {""} \cup {encodeURIComponent(id) : id \in NavIds} \cup {"!a:x"}

\* hash.match(/#\/room\/([^?#]+)/), decoded; '' (RoomList) or null (Shell)
\* without a match
getActiveFromHash(hash) == IF hash = "" THEN "" ELSE decodeURIComponent(hash)

\* window.location.hash = ...; a hashchange event is queued when it changed
setHash(n, h) == [n EXCEPT !.hash = h, !.hashEv = (n.hashEv \/ h # n.hash)]

\* rooms.find(r => r.roomId === id), by its roomId ("" is undefined)
find(list, id) == IF \E i \in 1..Len(list) : list[i] = id THEN id ELSE ""

rlEffectKeep(n) == n

\* RoomList's selection effect, run until it changes nothing
rlEffect(n) ==
  IF n.list = <<>> THEN n
  ELSE IF n.active = "" \/ find(n.list, n.active) = ""
  THEN [setHash(n, encodeURIComponent(n.list[1])) EXCEPT !.active = n.list[1]]
  ELSE n

\* RoomView's binding effect: the clean-up of its last run cancels the
\* waitForRoom in flight; then the body, with the first iteration of
\* waitForRoom, which runs before its first await
rvEffect(n, hasClient) ==
  LET room == find(n.list, n.activeRoomId)
  IN  IF room # "" THEN [n EXCEPT !.boundRoom = room, !.poll = NoPoll]
      ELSE IF hasClient /\ n.activeRoomId # ""
      THEN IF n.activeRoomId \in n.store
           THEN [n EXCEPT !.boundRoom = n.activeRoomId, !.poll = NoPoll]
           ELSE [n EXCEPT !.poll = [on |-> TRUE, id |-> n.activeRoomId, t |-> 0]]
      ELSE [n EXCEPT !.poll = NoPoll]

\* the render after a change and the effects it sets off: RoomView's effect
\* runs when room or activeRoomId is another than at its last run
commit(old, new, hasClient) ==
  LET n == rlEffect(new)
  IN  IF n.activeRoomId # old.activeRoomId
         \/ find(n.list, n.activeRoomId) # find(old.list, old.activeRoomId)
      THEN rvEffect(n, hasClient)
      ELSE n

\* the user follows a link to, or types, another hash
Navigate(h) ==
  /\ h # ui.nav.hash
  /\ ui' = [ui EXCEPT !.nav = setHash(ui.nav, h)]
  /\ UNCHANGED <<provider, gc>>

\* the hashchange listeners of Shell and of RoomList
HashChange ==
  /\ ui.nav.hashEv
  /\ LET a == getActiveFromHash(ui.nav.hash)
     IN  ui' = [ui EXCEPT !.nav = commit(ui.nav,
                  [ui.nav EXCEPT !.hashEv = FALSE, !.active = a, !.activeRoomId = a],
                  client # 0)]
  /\ UNCHANGED <<provider, gc>>

\* a sync puts a room into the client's store; the created room only once
\* createRoom has answered
StoreLearns(id) ==
  /\ client # 0
  /\ id \notin ui.nav.store
  /\ id \in JoinedIds \/ (id = CreatedId /\ (ui.nav.create = "joining" \/ ui.nav.made))
  /\ ui' = [ui EXCEPT !.nav = commit(ui.nav,
               [ui.nav EXCEPT !.store = ui.nav.store \cup {id}], client # 0)]
  /\ UNCHANGED <<provider, gc>>

\* the provider publishes a list with one more room of the store, which
\* its order puts first or last
RoomPublished(id, first) ==
  /\ client # 0
  /\ id \in ui.nav.store
  /\ find(ui.nav.list, id) = ""
  /\ ui' = [ui EXCEPT !.nav = commit(ui.nav,
               [ui.nav EXCEPT !.list = IF first THEN <<id>> \o ui.nav.list
                                       ELSE Append(ui.nav.list, id)],
               client # 0)]
  /\ UNCHANGED <<provider, gc>>

\* a room is left: the store and the published list lose it
RoomGone(id) ==
  /\ client # 0
  /\ find(ui.nav.list, id) # ""
  /\ ui' = [ui EXCEPT !.nav = commit(ui.nav,
               [ui.nav EXCEPT !.list = SelectSeq(ui.nav.list, LAMBDA x : x # id),
                              !.store = ui.nav.store \ {id}],
               client # 0)]
  /\ UNCHANGED <<provider, gc>>

\* selectRoom(roomId) by a click on a listed room
SelectRoom(id) ==
  /\ find(ui.nav.list, id) # ""
  /\ id # ui.nav.active
  /\ ui' = [ui EXCEPT !.nav = commit(ui.nav,
               [setHash(ui.nav, encodeURIComponent(id)) EXCEPT !.active = id],
               client # 0)]
  /\ UNCHANGED <<provider, gc>>

\* a timeout of waitForRoom ends: t += step, the loop test, getRoom
PollTick ==
  /\ ui.nav.poll.on
  /\ LET t == ui.nav.poll.t + PollStep
     IN  ui' = [ui EXCEPT !.nav =
                  IF t >= PollMs THEN [ui.nav EXCEPT !.poll = NoPoll]
                  ELSE IF ui.nav.poll.id \in ui.nav.store
                  THEN [ui.nav EXCEPT !.boundRoom = ui.nav.poll.id, !.poll = NoPoll]
                  ELSE [ui.nav EXCEPT !.poll.t = t]]
  /\ UNCHANGED <<provider, gc>>

\* onNewRoom / onNewDM with an accepted prompt, up to the first await of
\* createEncryptedRoom / createEncryptedDM
OnNew(kind) ==
  /\ mounted
  /\ ui.nav.create = "idle"
  /\ ~ui.nav.made
  /\ ui.h.st \in {"idle", "done"}
  /\ ui.send.st \in {"idle", "done"}
  /\ ui' = [settled(ui, helperCall(kind, client, "", client # 0 /\ cl[client].crypto,
                                   "unknown"))
             EXCEPT !.nav.create = "creating"]
  /\ UNCHANGED <<provider, gc>>

\* createEncryptedRoom / createEncryptedDM has settled: joinRoom is called,
\* or the catch alerts
OnNewResumes ==
  /\ ui.nav.create = "creating"
  /\ ui.h.st = "done"
  /\ ui' = [ui EXCEPT !.nav.create = IF ui.h.res = "ok" THEN "joining" ELSE "idle"]
  /\ UNCHANGED <<provider, gc>>

\* joinRoom(roomId).catch(()=>{}) has settled: selectRoom(roomId)
JoinSettles ==
  /\ ui.nav.create = "joining"
  /\ ui' = [ui EXCEPT !.nav = commit(ui.nav,
               [setHash(ui.nav, encodeURIComponent(CreatedId))
                  EXCEPT !.active = CreatedId, !.create = "idle", !.made = TRUE],
               client # 0)]
  /\ UNCHANGED <<provider, gc>>

\* ------------------------------------------------------------- retention GC
\* calls of scheduleRetentionGC in one run
MaxGcCalls == 3
\* events the live timelines hold together
MaxGcEvents == 2

\* getEffectiveRetentionForRoom(client, roomId).maxLifetime; an unknown room
\* has no state, so its content is {}
maxLifetimeOf(g, r) == IF r \in KnownRooms THEN normMs(g.ret[r]) ELSE Absent

\* !maxLifetime
NoLifetime(m) == m = Absent \/ m = 0

sweptAnew(e, cutoff) ==
  [e EXCEPT !.mark = IF e.ts < cutoff THEN "local"
                     ELSE IF e.mark = "local" THEN "none" ELSE e.mark]

sweptLoose(e, cutoff) == IF e.ts <= cutoff THEN [e EXCEPT !.mark = "local"] ELSE e

\* run() on event e: marked when e.getTs() < cutoff
swept(e, cutoff) == IF e.ts < cutoff THEN [e EXCEPT !.mark = "local"] ELSE e

runDropping(g, c, r) ==
  LET m == maxLifetimeOf(g, r)
      cutoff == g.now - m
  IN  IF NoLifetime(m) \/ r \notin KnownRooms THEN g.tl
      ELSE [g.tl EXCEPT ![c][r] = SelectSeq(g.tl[c][r], LAMBDA e : ~(e.ts < cutoff))]

\* run() of room r in the closure that holds client c: the timelines after it
run(g, c, r) ==
  LET m == maxLifetimeOf(g, r)
      cutoff == g.now - m
  IN  IF NoLifetime(m) \/ r \notin KnownRooms THEN g.tl
      ELSE [g.tl EXCEPT ![c][r] = [i \in 1..Len(g.tl[c][r]) |-> swept(g.tl[c][r][i], cutoff)]]

scheduledAgain(g, c, r) ==
  [g EXCEPT !.calls = g.calls + 1,
            !.scheduled = g.scheduled \cup {r},
            !.owner[r] = c,
            !.tl = run(g, c, r),
            !.sweeps[r] = g.sweeps[r] + 1,
            !.timers[r] = g.timers[r] + 1]

scheduledRebinding(g, c, r) ==
  IF r \in g.scheduled THEN [g EXCEPT !.calls = g.calls + 1, !.owner[r] = c]
  ELSE scheduledAgain(g, c, r)

\* scheduleRetentionGC(client, roomId)
scheduleRetentionGC(g, c, r) ==
  IF r \in g.scheduled THEN [g EXCEPT !.calls = g.calls + 1]
  ELSE [g EXCEPT !.calls = g.calls + 1,
                 !.scheduled = g.scheduled \cup {r},
                 !.owner[r] = c,
                 !.tl = run(g, c, r),
                 !.sweeps[r] = g.sweeps[r] + 1,
                 !.timers[r] = g.timers[r] + 1]

Schedule(c, r) ==
  /\ gc.calls < MaxGcCalls
  /\ gc' = [scheduleRetentionGC(gc, c, r) EXCEPT
              !.asked = gc.asked \cup {c},
              !.last = IF r \in gc.scheduled THEN NoRun
                       ELSE [room |-> r, client |-> c, ctx |-> client]]
  /\ UNCHANGED <<provider, ui>>

\* an hourly timer of room r fires
TimerSweep(r) ==
  /\ gc.timers[r] > 0
  /\ gc' = [gc EXCEPT !.tl = run(gc, gc.owner[r], r),
                      !.last = [room |-> r, client |-> gc.owner[r], ctx |-> client]]
  /\ UNCHANGED <<provider, ui>>

\* time passes
Tick(t) ==
  /\ t > gc.now
  /\ gc' = [gc EXCEPT !.now = t, !.last = NoRun]
  /\ UNCHANGED <<provider, ui>>

RECURSIVE GcEventsUpTo(_, _)
GcEventsUpTo(g, n) ==
  IF n = 0 THEN 0
  ELSE Len(g.tl[n]["!a"]) + Len(g.tl[n]["!b"]) + GcEventsUpTo(g, n - 1)

GcEventCount(g) == GcEventsUpTo(g, MaxClients)

\* the SDK appends an event to the live timeline of a known room of client
\* c; it may come redacted by the server
AddEvent(c, r, ts, mark) ==
  /\ r \in KnownRooms
  /\ GcEventCount(gc) < MaxGcEvents
  /\ gc' = [gc EXCEPT !.tl[c][r] = Append(gc.tl[c][r], GcEvent(Len(gc.tl[c][r]) + 1, ts, mark)),
                      !.last = NoRun]
  /\ UNCHANGED <<provider, ui>>

\* the retention state of a known room changes
SetRetention(r, v) ==
  /\ r \in KnownRooms
  /\ gc.ret[r] # v
  /\ gc' = [gc EXCEPT !.ret[r] = v, !.last = NoRun]
  /\ UNCHANGED <<provider, ui>>

\* ------------------------------------------------------------- specifications
\* The provider is explored in three parts, each a specification over the
\* same actions with the inputs of the other parts held small.

\* the login response while the bootstrap is explored
BootRaws == {Raw("u1", Undef, "t1", Undef, "d1", Undef)}
\* the rooms the SDK reports while the bootstrap is explored
FewRooms == {RoomObj(1, TRUE, 1)}
OneHs == Hs("", "hs.org")

\* Spec: the bootstrap.  A page load with or without a stored session; every
\* login flow, each login succeeding (SpecSession has those that fail);
\* start, ensureCrypto and the [client] effect on every client; the SDK's
\* events on one room.
InitBoot ==
  /\ rev \in Revisions
  /\ hsStore = HsStored(normHs(OneHs))
  /\ session \in {NoSession, JsonStringify(CredA)}
  /\ Fresh
  /\ lastLogin = NoCred

Next ==
  \/ \E runs \in {1, 2} : Mount(runs)
  \/ \E k \in LoginKinds : LoginCall(k, OneHs)
  \/ \E p \in pending, raw \in BootRaws : LoginResolve(p, raw)
  \/ StartWithAccessToken(OneHs, CredA)
  \/ ClientEffect
  \/ \E c \in Clients, ok \in BOOLEAN : StoresDone(c, ok)
  \/ \E c \in Clients, o \in Origins, out \in InitOutcomes : EcInitDone(c, o, out)
  \/ \E c \in Clients, o \in Origins : EcReturn(c, o)
  \/ \E c \in Clients, st \in SyncStates : SyncEvent(c, st, TRUE, FALSE)
  \/ \E c \in Clients, ev \in RoomEvents, r \in FewRooms \cup {Null} :
        (ev = "Room" => r # Null) /\ RoomEvent(c, ev, r, TRUE)
  \/ \E c \in Clients : FallbackTimer(c, TRUE)
  \/ \E c \in Clients : CheckCryptoReady(c)

Spec == InitBoot /\ [][Next]_vars

\* SpecSession: localStorage and the context client under every login flow,
\* the auto-restore and logout; the clients are created and not run further.
NextSession ==
  \/ \E runs \in {1, 2} : Mount(runs)
  \/ \E k \in LoginKinds, h \in HsInputs : LoginCall(k, h)
  \/ \E p \in pending : LoginReject(p)
  \/ \E p \in pending, raw \in RawResults : LoginResolve(p, raw)
  \/ \E h \in HsInputs, a \in TokenArgs : StartWithAccessToken(h, a)
  \/ LogoutCall
  \/ \E lok \in BOOLEAN, sok \in BOOLEAN : LogoutFinish(lok, sok)

SpecSession == Init /\ [][NextSession]_vars

\* SpecBridge: the bridge on one client that start() has bound and started
\* after an auto-restore, while the ensureCrypto of the [client] effect (in
\* the revisions that have the effect) is still at its crypto
\* initialisation: every sync state, the key-backup queries, and the SDK's
\* events on every room array.  The initial states are states of Spec.
Bootstrapped(outcome) ==
  [NewClient(CredA) EXCEPT
     !.stores = TRUE,
     !.crypto = (outcome = "on"),
     !.bound = 1,
     !.running = TRUE,
     !.early = (rev = 1 /\ outcome # "throw"),
     !.spc = afterStart,
     !.ec["eff"] = IF rev = 3 THEN "none" ELSE "init"]

InitBridge ==
  /\ rev \in Revisions
  /\ hsStore = HsStored(normHs(OneHs))
  /\ session = JsonStringify(CredA)
  /\ mounted = TRUE
  /\ nClients = 1
  /\ \E outcome \in InitOutcomes :
       /\ cl = [c \in Clients |-> IF c = 1 THEN Bootstrapped(outcome) ELSE NewClient(NoCred)]
       /\ cryptoEnabled = (outcome = "on")
  /\ client = 1
  /\ homeserver = hsStore
  /\ ready = FALSE
  /\ syncing = FALSE
  /\ rooms = <<>>
  /\ keyBackupEnabled = FALSE
  /\ started = TRUE
  /\ effClient = IF rev = 3 THEN 0 ELSE 1
  /\ pending = {}
  /\ kbq = <<>>
  /\ lo = -1
  /\ loggedOut = FALSE
  /\ loginFailed = FALSE
  /\ lastLogin = NoCred
  /\ ignored = FALSE
  /\ kbStale = 0
  /\ gc = GcFresh
  /\ ui = UiFresh

NextBridge ==
  \/ \E c \in Clients, o \in Origins, out \in InitOutcomes : EcInitDone(c, o, out)
  \/ \E c \in Clients, o \in Origins : EcReturn(c, o)
  \/ \E c \in Clients, st \in SyncStates, arr \in BOOLEAN, m \in BOOLEAN :
        SyncEvent(c, st, arr, m)
  \/ \E i \in 1..MaxKb, a \in KbAnswers : KbAnswer(i, a)
  \/ \E c \in Clients, ev \in RoomEvents, r \in RoomObjs \cup {Null}, arr \in BOOLEAN :
        RoomEvent(c, ev, r, arr)
  \/ \E c \in Clients, arr \in BOOLEAN : FallbackTimer(c, arr)
  \/ \E c \in Clients : CheckCryptoReady(c)

SpecBridge == InitBridge /\ [][NextBridge]_vars

\* SpecNudge: revision 1 from a page load with a stored session up to the
\* fallback nudge.  A timer that was set fires: weak fairness on the nudge.
InitNudge ==
  /\ rev = 1
  /\ hsStore = HsStored(normHs(OneHs))
  /\ session = JsonStringify(CredA)
  /\ Fresh
  /\ lastLogin = NoCred

NextNudge ==
  \/ \E runs \in {1, 2} : Mount(runs)
  \/ ClientEffect
  \/ \E c \in Clients, ok \in BOOLEAN : StoresDone(c, ok)
  \/ \E c \in Clients, o \in Origins, out \in InitOutcomes : EcInitDone(c, o, out)
  \/ \E c \in Clients, o \in Origins : EcReturn(c, o)
  \/ \E c \in Clients, st \in SyncStates : SyncEvent(c, st, TRUE, FALSE)
  \/ \E c \in Clients, ev \in RoomEvents, r \in FewRooms \cup {Null} :
        (ev = "Room" => r # Null) /\ RoomEvent(c, ev, r, TRUE)
  \/ \E c \in Clients : FallbackTimer(c, TRUE)

SpecNudge ==
  /\ InitNudge
  /\ [][NextNudge]_vars
  /\ WF_vars(\E c \in Clients : FallbackTimer(c, TRUE))

\* SpecRetention: the retention GC on two known rooms and one unknown, called
\* with one client, with the provider idle.
InitRetention ==
  /\ rev = 3
  /\ hsStore = HsAbsent
  /\ session = NoSession
  /\ Fresh
  /\ lastLogin = NoCred

NextRetention ==
  \/ \E r \in GcRooms : Schedule(1, r)
  \/ \E r \in GcRooms : TimerSweep(r)
  \/ \E t \in Times : Tick(t)
  \/ \E r \in KnownRooms, ts \in EventTimes, mark \in {"none", "server"} : AddEvent(1, r, ts, mark)
  \/ \E r \in KnownRooms, v \in Lifetimes : SetRetention(r, v)

SpecRetention == InitRetention /\ [][NextRetention]_vars

\* SpecStart: start(c) by itself, on clients with and without an access
\* token, up to the end of the bootstrap.
InitStart ==
  /\ rev \in Revisions
  /\ hsStore = HsAbsent
  /\ session = NoSession
  /\ Fresh
  /\ lastLogin = NoCred

NextStart ==
  \/ \E a \in StartArgs : Start(a)
  \/ \E c \in Clients, ok \in BOOLEAN : StoresDone(c, ok)
  \/ \E c \in Clients, o \in Origins, out \in InitOutcomes : EcInitDone(c, o, out)
  \/ \E c \in Clients, o \in Origins : EcReturn(c, o)
  \/ \E c \in Clients : FallbackTimer(c, TRUE)
  \/ \E c \in Clients : CheckCryptoReady(c)

SpecStart == InitStart /\ [][NextStart]_vars

\* SpecRelogin: sessions one after another on one page.  A login with an
\* access token, the bootstrap of its client, the SDK's events, logout, and
\* the login after it.
InitRelogin ==
  /\ rev \in Revisions
  /\ hsStore = HsStored(normHs(OneHs))
  /\ session = NoSession
  /\ Fresh
  /\ lastLogin = NoCred

NextRelogin ==
  \/ Mount(1)
  \/ StartWithAccessToken(OneHs, CredA)
  \/ \E c \in Clients : StoresDone(c, TRUE)
  \/ \E c \in Clients, out \in InitOutcomes : EcInitDone(c, "start", out)
  \/ \E c \in Clients : EcReturn(c, "start")
  \/ \E c \in Clients, st \in SyncStates : SyncEvent(c, st, TRUE, FALSE)
  \/ \E c \in Clients, ev \in {"Room", "deleteRoom"}, r \in FewRooms :
        RoomEvent(c, ev, r, TRUE)
  \/ \E c \in Clients : FallbackTimer(c, TRUE)
  \/ \E c \in Clients : CheckCryptoReady(c)
  \/ LogoutCall
  \/ \E lok \in BOOLEAN, sok \in BOOLEAN : LogoutFinish(lok, sok)

SpecRelogin == InitRelogin /\ [][NextRelogin]_vars

\* SpecGcSessions: the retention GC of one room over the sessions of a page.
\* Logins create the clients (they are not run further), scheduleRetentionGC
\* is called with the client the context exposes, and logout ends a session.
InitGcSessions ==
  /\ rev \in Revisions
  /\ hsStore = HsStored(normHs(OneHs))
  /\ session = NoSession
  /\ Fresh
  /\ lastLogin = NoCred

NextGcSessions ==
  \/ Mount(1)
  \/ StartWithAccessToken(OneHs, CredA)
  \/ LogoutCall
  \/ \E lok \in BOOLEAN, sok \in BOOLEAN : LogoutFinish(lok, sok)
  \/ client # 0 /\ Schedule(client, "!a")
  \/ TimerSweep("!a")
  \/ \E t \in Times : Tick(t)
  \/ \E c \in Live : AddEvent(c, "!a", 10000, "none")
  \/ SetRetention("!a", 60000)

SpecGcSessions == InitGcSessions /\ [][NextGcSessions]_vars

\* The helpers are explored on a page without a session, which has no
\* client, and on one whose client start() has bootstrapped, with crypto or
\* without.
InitHelpers ==
  \/ InitBridge
  \/ /\ rev \in Revisions
     /\ hsStore = HsAbsent
     /\ session = NoSession
     /\ Fresh
     /\ lastLogin = NoCred

\* SpecPaginate: paginateBack, one call at a time.
NextPaginate ==
  \/ Mount(1)
  \/ \E r \in UiRooms, b \in 1..MaxBatches, l \in Limits : PaginateBack(r, b, l)
  \/ \E ans \in PageAnswers : PaginateAnswer(ans)

SpecPaginate == InitHelpers /\ [][NextPaginate]_vars

\* SpecImport: importRoomKeysFromFile, one call at a time, on every kind of
\* file and every shape of the SDK's objects.
NextImport ==
  \/ Mount(1)
  \/ \E f \in Files, cIm \in BOOLEAN, mIm \in BOOLEAN : ImportRoomKeysFromFile(f, cIm, mIm)
  \/ \E out \in InitOutcomes : ImportInit(out)
  \/ \E ok \in BOOLEAN : ImportSettle(ok)

SpecImport == InitHelpers /\ [][NextImport]_vars

\* SpecEncrypt: ensureRoomEncrypted, createEncryptedRoom and
\* createEncryptedDM, one call at a time.
NextEncrypt ==
  \/ Mount(1)
  \/ \E k \in HelperKinds, r \in UiRooms : HelperCall(k, IF k = "encrypt" THEN r ELSE "")
  \/ \E out \in InitOutcomes : HelperInit(out)
  \/ \E ok \in BOOLEAN : HelperSettle(ok)
  \/ \E r \in UiRooms : EncryptionArrives(r)

SpecEncrypt == InitHelpers /\ [][NextEncrypt]_vars

\* SpecSend: RoomView.sendMessage on a bound room, or on none.
NextSend ==
  \/ Mount(1)
  \/ \E b \in Bodies : InputChange(b)
  \/ \E r \in {"", "!plain", "!enc"}, ans \in BOOLEAN : SendMessage(r, ans)
  \/ \E out \in InitOutcomes : HelperInit(out)
  \/ \E ok \in BOOLEAN : HelperSettle(ok)
  \/ \E r \in UiRooms : EncryptionArrives(r)
  \/ \E ok \in BOOLEAN : SendSettle(ok)

SpecSend == InitHelpers /\ [][NextSend]_vars

\* SpecSso: the Login page of a visit without a session, returning from the
\* identity provider with a loginToken, reloaded and mounted at will.
InitSso ==
  /\ rev \in Revisions
  /\ hsStore \in StoredHs
  /\ session = NoSession
  /\ Fresh
  /\ lastLogin = NoCred

NextSso ==
  \/ Mount(1)
  \/ \E t \in Tokens \cup {""} : PageLoad(t)
  \/ \E h \in HsInputs : LoginEffects(h)
  \/ \E f \in ui.sso.flights : SsoReject(f)
  \/ \E f \in ui.sso.flights, raw \in RawResults : SsoResolve(f, raw)

SpecSso == InitSso /\ [][NextSso]_vars

\* SpecRoomView: Shell's activeRoomId and RoomView's boundRoom under hash
\* navigation while rooms come and go.
NextRoomView ==
  \/ Mount(1)
  \/ \E h \in HashParts : Navigate(h)
  \/ HashChange
  \/ \E id \in NavIds : StoreLearns(id)
  \/ \E id \in NavIds, first \in BOOLEAN : RoomPublished(id, first)
  \/ \E id \in NavIds : RoomGone(id)
  \/ \E id \in NavIds : SelectRoom(id)
  \/ PollTick

SpecRoomView == InitHelpers /\ [][NextRoomView]_vars

\* SpecRoomList: RoomList's selection under hash navigation, clicks and
\* onNewRoom / onNewDM while rooms come and go.
NextRoomList ==
  \/ Mount(1)
  \/ \E h \in HashParts : Navigate(h)
  \/ HashChange
  \/ \E id \in NavIds : StoreLearns(id)
  \/ \E id \in NavIds, first \in BOOLEAN : RoomPublished(id, first)
  \/ \E id \in NavIds : RoomGone(id)
  \/ \E id \in NavIds : SelectRoom(id)
  \/ \E k \in {"room", "dm"} : OnNew(k)
  \/ \E out \in InitOutcomes : HelperInit(out)
  \/ \E ok \in BOOLEAN : HelperSettle(ok)
  \/ OnNewResumes
  \/ JoinSettles

SpecRoomList == InitHelpers /\ [][NextRoomList]_vars

\* the initial states of SpecBridge, for Spec to reach
BridgeStart ==
  /\ nClients = 1
  /\ \E outcome \in InitOutcomes :
       /\ cl[1] = Bootstrapped(outcome)
       /\ cryptoEnabled = (outcome = "on")
  /\ client = 1 /\ ~ready /\ ~syncing /\ rooms = <<>> /\ started
  /\ effClient = (IF rev = 3 THEN 0 ELSE 1)
  /\ pending = {} /\ lastLogin = NoCred

\* ------------------------------------------------------------- claims
StartedClients == {c \in Live : cl[c].spc # "none"}
BoundClients == {c \in Live : cl[c].bound > 0}

\* C1: while no logout intervenes, only the first start() that passed the
\* token check does anything: at most one client ever leaves start()'s
\* guard, a client whose start() was the no-op has no stores attached and
\* no listeners bound, and no client has its listeners bound twice.
C1_StartIsIdempotent ==
  /\ Cardinality(StartedClients) <= 1
  /\ Cardinality(BoundClients) <= 1
  /\ \A c \in Live :
       /\ cl[c].bound <= 1
       /\ c \notin StartedClients => ~cl[c].stores /\ cl[c].bound = 0
       /\ c \in StartedClients => started

\* a second bootstrap call came after the first client was bound and started,
\* and did nothing
C1_Witness ==
  \E c, d \in Live :
    /\ c # d
    /\ cl[c].bound = 1 /\ cl[c].running /\ cl[c].spc = "done"
    /\ cl[d].spc = "none" /\ cl[d].ec["start"] = "none"
    /\ client = d

\* C2: once a login succeeded, localStorage holds no session record or the
\* one record of the latest successful login.
C2_OneSession ==
  lastLogin # NoCred =>
    \/ session = NoSession
    \/ /\ session.kind = "json"
       /\ session.val.userId = lastLogin.userId
       /\ session.val.accessToken = lastLogin.accessToken
       /\ session.val.deviceId = lastLogin.deviceId

\* a second login replaced the record of the first
C2_Witness ==
  /\ nClients >= 2
  /\ cl[1].cred = CredA
  /\ lastLogin = CredB
  /\ session.kind = "json" /\ session.val = CredB

\* C3: the step that ends logout() leaves no session record, whether or not
\* the SDK's logout or stopClient threw, and a mount that finds no session
\* record creates and exposes no client.
C3_LogoutRemovesSession ==
  [][ /\ (\E lok \in BOOLEAN, sok \in BOOLEAN : LogoutFinish(lok, sok))
         => /\ session' = NoSession
            /\ rev \in {1, 2} => ~mounted'
      /\ ((\E runs \in {1, 2} : Mount(runs)) /\ session = NoSession)
         => nClients' = 0 /\ client' = 0 /\ ~started' ]_vars

\* after a login, logout() has completed: on the reloaded page (revisions 1
\* and 2) or in the reset context (revision 3)
C3_Witness ==
  /\ lastLogin # NoCred
  /\ session = NoSession
  /\ lo = -1
  /\ client = 0
  /\ ~mounted \/ loggedOut

\* raw has no non-empty userId, or no non-empty accessToken, under either name
Lacks(raw) ==
  \/ ~nonEmpty(raw.userId) /\ ~nonEmpty(raw.user_id)
  \/ ~nonEmpty(raw.accessToken) /\ ~nonEmpty(raw.access_token)

\* C4: a login whose SDK call rejects, or whose result lacks a non-empty
\* userId or accessToken, throws and leaves the persisted homeserver, the
\* persisted session, the context client and the started flag as they were.
C4_FailedLoginChangesNothing ==
  [][ ( \/ \E p \in pending : LoginReject(p)
        \/ \E p \in pending, raw \in RawResults : Lacks(raw) /\ LoginResolve(p, raw) )
      => /\ loginFailed'
         /\ UNCHANGED <<hsStore, session, client, homeserver, started, nClients, cl>> ]_vars

\* a login failed on a page that holds a restored session
C4_Witness ==
  /\ loginFailed
  /\ pending = {}
  /\ client # 0
  /\ session = JsonStringify(cl[client].cred)
  /\ started

\* C5: startClient is never called on a client that has no listeners bound.
C5_StartAfterBind == \A c \in Live : ~cl[c].early

HoldsRoom(cr) == Len(roomsArray(cr.rooms, TRUE)) > 0

\* C6: ready is false at first, and a step makes it true only on a client
\* with listeners bound, and only as the sync handler sees PREPARED, or as
\* the Room handler, the sync handler on SYNCING or CATCHUP, or the fallback
\* nudge finds that the client holds a room.
C6_ReadyOnlyWithRoomData ==
  /\ ~ready
  /\ [][ (~ready /\ ready') =>
          \E c \in Live :
            /\ cl[c].bound > 0
            /\ \/ SyncEvent(c, "PREPARED", TRUE, FALSE)
               \/ /\ \E st \in {"SYNCING", "CATCHUP"} : SyncEvent(c, st, TRUE, FALSE)
                  /\ HoldsRoom(cl[c])
               \/ /\ \E r \in FewRooms : RoomEvent(c, "Room", r, TRUE)
                  /\ HoldsRoom(cl'[c])
               \/ /\ FallbackTimer(c, TRUE)
                  /\ HoldsRoom(cl[c]) ]_vars

\* ready came without PREPARED: the bound client holds a room, and of the
\* flags PREPARED would have set, rooms is still empty
C6_Witness ==
  /\ ready
  /\ rev = 1
  /\ rooms = <<>>
  /\ \E c \in Live : cl[c].bound = 1 /\ HoldsRoom(cl[c])

Nudging(c) == c \in Live /\ cl[c].spc = "timer" /\ cl[c].bound > 0 /\ cl[c].running

C8_SyncingFollowsCallback ==
  [][ \A c \in Clients, st \in SyncStates, arr \in BOOLEAN, m \in BOOLEAN :
        SyncEvent(c, st, arr, m) => (syncing' = (st \in {"SYNCING", "CATCHUP"})) ]_vars

\* C9: the step of each sync callback of revision 1 on client c leaves
\* cryptoEnabled equal to whether c has crypto.
C9_CryptoFollowsCallback ==
  [][ \A c \in Clients, st \in SyncStates :
        (rev = 1 /\ SyncEvent(c, st, TRUE, FALSE)) => (cryptoEnabled' = cl'[c].crypto) ]_vars

Count(s, x) == Cardinality({i \in 1..Len(s) : s[i] = x})
IsPermutation(s, t) ==
  /\ Len(s) = Len(t)
  /\ \A i \in 1..Len(t) : Count(s, t[i]) = Count(t, t[i])
TsOrZero(r) == IF r.fin THEN r.t ELSE 0
NonIncreasing(s) == \A i \in 1..(Len(s) - 1) : TsOrZero(s[i]) >= TsOrZero(s[i + 1])
\* the client's visible rooms without the falsy entries; none when the SDK
\* gave no array
Visible(rs, isArray) == IF isArray THEN SelectSeq(rs, LAMBDA r : r # Null) ELSE <<>>

\* C10: every step that refreshes (a room event on a client with listeners,
\* a PREPARED sync callback, a fallback nudge that finds rooms) leaves the
\* published rooms a permutation of the client's visible rooms without the
\* falsy entries, in non-increasing order of timestamp-or-zero.
C10_RoomsSortedPermutation ==
  [][ \A c \in Clients, arr \in BOOLEAN :
        ( \/ /\ cl[c].bound > 0
              /\ UNCHANGED <<syncing, cryptoEnabled, kbq>>
              /\ \E ev \in RoomEvents, r \in RoomObjs \cup {Null} : RoomEvent(c, ev, r, arr)
           \/ \E m \in BOOLEAN : SyncEvent(c, "PREPARED", arr, m)
           \/ /\ FallbackTimer(c, arr)
              /\ Len(Visible(cl[c].rooms, arr)) > 0 )
        => /\ IsPermutation(rooms', Visible(cl'[c].rooms, arr))
           /\ NonIncreasing(rooms') ]_vars

\* two rooms are published in an order that is not the SDK's, the one
\* without a finite timestamp last
C10_Witness ==
  /\ Len(rooms) = 2
  /\ rooms # Visible(cl[1].rooms, TRUE)
  /\ IsPermutation(rooms, Visible(cl[1].rooms, TRUE))
  /\ rooms[1].fin /\ rooms[1].t > 0
  /\ ~rooms[2].fin

\* the clients whose listeners hear every change of their rooms: bound, and
\* in revision 1 past the fallback nudge
Heard(c) == c \in Live /\ cl[c].bound > 0 /\ (rev = 1 => cl[c].spc = "done")

Sweeps(r) == ((\E c \in Clients : Schedule(c, r)) /\ r \notin gc.scheduled) \/ TimerSweep(r)

\* the client whose room the run() of that step read
Sweeper(r) == gc'.owner[r]

\* after the step, exactly the events of r with a timestamp below now - m
\* carry the sweep's mark anew; the marks of the others are as before
MarksBelow(r, m) ==
  LET c == Sweeper(r)
  IN  \A i \in 1..Len(gc.tl[c][r]) :
        gc'.tl[c][r][i].mark =
          IF gc.tl[c][r][i].ts < gc.now - m THEN "local" ELSE gc.tl[c][r][i].mark

\* C12: a sweep of a known room with effective max lifetime m > 0 marks
\* exactly the events of its live timeline with timestamp < now - m; a sweep
\* of a room without retention state, with max lifetime absent or 0, or
\* unknown to the client marks nothing.
C12_SweepHidesExpired ==
  [][ \A r \in GcRooms :
        Sweeps(r) =>
          LET m == maxLifetimeOf(gc, r)
          IN  IF r \in KnownRooms /\ m > 0
              THEN Len(gc'.tl[Sweeper(r)][r]) = Len(gc.tl[Sweeper(r)][r]) /\ MarksBelow(r, m)
              ELSE gc'.tl = gc.tl ]_vars

\* at now = 100 000 with max lifetime 60 000 the event of 10 000 is marked
\* and the event of 40 000, which is at the cutoff, is not
C12_Witness ==
  /\ gc.now = 100000
  /\ gc.ret["!a"] = 60000
  /\ "!a" \in gc.scheduled
  /\ Len(gc.tl[1]["!a"]) = 2
  /\ gc.tl[1]["!a"][1] = GcEvent(1, 10000, "local")
  /\ gc.tl[1]["!a"][2] = GcEvent(2, 40000, "none")

\* C13: a sweep of a known room whose retention state gives max_lifetime
\* v > 0 uses v as milliseconds: it marks exactly the events with
\* timestamp < now - v.
C13_LifetimeIsMilliseconds ==
  [][ \A r \in KnownRooms :
        (Sweeps(r) /\ gc.ret[r] > 0) => MarksBelow(r, gc.ret[r]) ]_vars

\* C14: every scheduled room has exactly one immediate sweep and one hourly
\* timer, however often scheduleRetentionGC was called for it, and a room
\* never scheduled has none.
C14_OneTimerPerRoom ==
  \A r \in GcRooms :
    /\ r \in gc.scheduled => gc.sweeps[r] = 1 /\ gc.timers[r] = 1
    /\ r \notin gc.scheduled => gc.sweeps[r] = 0 /\ gc.timers[r] = 0

\* three calls, two of them for the same room: one timer for each room
C14_Witness ==
  /\ gc.calls = 3
  /\ gc.scheduled = {"!a", "!b"}
  /\ gc.timers["!a"] = 1 /\ gc.timers["!b"] = 1

\* C15: a sweep of room r leaves every timeline its length and order, every
\* event its timestamp, the events of the other rooms as they are, and
\* touches nothing else: no retention state, no request to the homeserver,
\* nothing of the provider.
C15_SweepIsSoftAndLocal ==
  [][ \A r \in GcRooms :
        Sweeps(r) =>
          /\ \A c \in Clients, q \in KnownRooms :
               /\ Len(gc'.tl[c][q]) = Len(gc.tl[c][q])
               /\ \A i \in 1..Len(gc.tl[c][q]) :
                    /\ gc'.tl[c][q][i].id = gc.tl[c][q][i].id
                    /\ gc'.tl[c][q][i].ts = gc.tl[c][q][i].ts
               /\ q # r => gc'.tl[c][q] = gc.tl[c][q]
          /\ gc'.ret = gc.ret
          /\ gc'.sent = gc.sent
          /\ gc'.now = gc.now
          /\ UNCHANGED provider ]_vars

\* room !a was swept and its expired event marked, while the expired event
\* of room !b, which has the same policy and no sweep, is untouched
C15_Witness ==
  /\ gc.scheduled = {"!a"}
  /\ gc.ret["!a"] = 60000 /\ gc.ret["!b"] = 60000
  /\ gc.tl[1]["!a"] = <<GcEvent(1, 10000, "local")>>
  /\ gc.tl[1]["!b"] = <<GcEvent(1, 10000, "none")>>

\* a non-empty string
IsText(x) == x \notin {Undef, NonStr, ""}

\* C16: whenever the started flag is set and a client is exposed, the
\* exposed client is the one start() took through its guard, and the
\* persisted session holds its credentials.
C16_ExposedIsRunning ==
  (started /\ client # 0) =>
    /\ cl[client].spc # "none"
    /\ session = JsonStringify(cl[client].cred)

BoundAndStarted(cr) == cr.bound = 1 /\ cr.running /\ cr.spc = afterStart

\* C17: start() goes on whether or not the stores were attached; when its
\* ensureCrypto returns, whatever the crypto initialisation did, the client
\* has its listeners bound once and is running; and every ensureCrypto that
\* returns true returns it for a client that has crypto.
C17_BootstrapIsBestEffort ==
  [][ \A c \in Clients :
        /\ \A ok \in BOOLEAN :
             StoresDone(c, ok) =>
               /\ cl'[c].stores = ok
               /\ cl'[c].ec["start"] = "init" \/ BoundAndStarted(cl'[c])
        /\ \A out \in InitOutcomes :
             EcInitDone(c, "start", out) =>
               IF rev = 1 /\ out # "throw"
               THEN cl'[c].ec["start"] = "run" /\ cl'[c].running
               ELSE /\ BoundAndStarted(cl'[c])
                    /\ cryptoEnabled' = (out # "throw" /\ cl'[c].crypto)
        /\ EcReturn(c, "start") =>
             BoundAndStarted(cl'[c]) /\ cryptoEnabled' = cl'[c].crypto
        /\ \A o \in {"kick", "eff"}, out \in InitOutcomes :
             (EcInitDone(c, o, out) \/ EcReturn(c, o)) =>
               ((cryptoEnabled' /\ ~cryptoEnabled) => cl'[c].crypto) ]_vars

\* a client without stores and without crypto, bound and running
C17_Witness ==
  \E c \in Live :
    /\ ~cl[c].stores /\ ~cl[c].crypto
    /\ cl[c].bound = 1 /\ cl[c].running /\ cl[c].spc = "done"
    /\ ~cryptoEnabled

\* C18: start() on a client without a non-empty access token leaves the
\* started flag and the client as they were (no stores, no listeners, not
\* running), and a start() on a client with a token that finds the flag
\* unset sets it and begins the bootstrap.
C18_TokenlessStartAborts ==
  /\ [](\A c \in Live : ~IsText(cl[c].cred.accessToken) => cl[c] = NewClient(cl[c].cred))
  /\ [][ \A a \in StartArgs :
          Start(a) =>
            IF ~IsText(a.accessToken)
            THEN started' = started /\ cl'[nClients'] = NewClient(a)
            ELSE ~started => (started' /\ cl'[nClients'].spc = "stores") ]_vars

\* start() aborted on a client without a token, and the start() after it, on
\* a client with one, went through the whole bootstrap
C18_Witness ==
  /\ nClients = 2
  /\ ~IsText(cl[1].cred.accessToken)
  /\ cl[1] = NewClient(cl[1].cred)
  /\ cl[2].stores /\ cl[2].bound = 1 /\ cl[2].running /\ cl[2].spc = "done"
  /\ started

\* C19: startWithAccessToken with a userId or an accessToken that is not a
\* non-empty string writes nothing to localStorage, creates and exposes no
\* client, and leaves the started flag as it was.
C19_BadTokenArgsIgnored ==
  [][ \A h \in HsInputs, a \in TokenArgs :
        (StartWithAccessToken(h, a) /\ (~IsText(a.userId) \/ ~IsText(a.accessToken)))
        => UNCHANGED <<hsStore, session, nClients, cl, client, homeserver, started>> ]_vars

\* the call was ignored on a page with nothing persisted and no client
C19_Witness ==
  /\ ignored
  /\ hsStore = HsAbsent /\ session = NoSession
  /\ nClients = 0 /\ client = 0 /\ ~started

\* what the mount effect finds in localStorage
HsPersisted == hsStore.kind = "set" /\ hsStore.val # EmptyHs
SessionPersisted == session.kind # "none"
SessionValid ==
  session.kind = "json" /\ IsText(session.val.userId) /\ IsText(session.val.accessToken)

LoggedOutContext ==
  /\ client = 0
  /\ rooms = <<>>
  /\ ~ready
  /\ ~syncing
  /\ ~started

LogoutCompletes == \E lok \in BOOLEAN, sok \in BOOLEAN : LogoutFinish(lok, sok)
LoginStep == nClients' # nClients

\* C21: in revision 3, right after logout() completes the context has no
\* client, no rooms, ready and syncing false and the started flag cleared;
\* from then on every step that is not a login leaves it so; and a login
\* made in that state takes its new client through start()'s guard.
C21_LogoutResetsUntilLogin ==
  [][ rev = 3 =>
        /\ LogoutCompletes => LoggedOutContext'
        /\ (loggedOut /\ lo = -1 /\ LoggedOutContext /\ ~LoginStep) => LoggedOutContext'
        /\ (loggedOut /\ lo = -1 /\ LoggedOutContext /\ LoginStep) =>
              (client' = nClients' /\ started' /\ cl'[client'].spc = "stores") ]_vars

\* C22: a step that takes ready from true to false is the completion of
\* logout().
C22_ReadyMonotone ==
  [][ (ready /\ ~ready') => LogoutCompletes ]_vars

\* revisions 2 and 3 set ready on PREPARED only, and PREPARED sets syncing
\* to false: here a later sync callback (SYNCING or CATCHUP) ran on the
\* ready context, and ready still holds
C22_Witness ==
  /\ rev # 1
  /\ ready
  /\ syncing
  /\ kbq = <<>>
  /\ client # 0

\* C23: the answer to a key-backup query that was issued before a query
\* already answered does not change keyBackupEnabled.
C23_NoStaleKeyBackup ==
  [][ \A i \in 1..MaxKb, a \in KbAnswers :
        (KbAnswer(i, a) /\ i <= kbStale) => keyBackupEnabled' = keyBackupEnabled ]_vars

\* C24: an event that carries the sweep's mark keeps its place and its mark
\* in every step: through every later sweep, whatever the room's retention
\* state has become, and through everything else the module or the SDK does
\* to the timelines.
C24_HidingIsMonotone ==
  [][ \A c \in Clients, r \in KnownRooms :
        \A i \in 1..Len(gc.tl[c][r]) :
          gc.tl[c][r][i].mark = "local" =>
            /\ Len(gc'.tl[c][r]) >= i
            /\ gc'.tl[c][r][i] = gc.tl[c][r][i] ]_vars

\* the last step was a sweep of room !a, whose retention state by then gave
\* no max lifetime, or one under which the marked event is not expired; the
\* event marked by an earlier sweep is still marked
C24_Witness ==
  /\ gc.last.room = "!a"
  /\ gc.last.client = 1
  /\ Len(gc.tl[1]["!a"]) > 0
  /\ gc.tl[1]["!a"][1].mark = "local"
  /\ LET m == maxLifetimeOf(gc, "!a")
     IN  NoLifetime(m) \/ ~(gc.tl[1]["!a"][1].ts < gc.now - m)

\* the page is reloaded
PageEnds == mounted /\ ~mounted'

\* C25: while the page lives a room's timer stays and keeps the client of
\* the first call, through logout too; a sweep of the timer marks the
\* expired events of that client's room and leaves the timelines of every
\* other client alone; and a call for a room already scheduled, whatever
\* its client, runs no sweep, sets no timer and does not change the client
\* the timer holds.
C25_SweepBoundToFirstClient ==
  [][ \A r \in GcRooms :
        /\ (gc.timers[r] > 0 /\ ~PageEnds) =>
              /\ gc'.timers[r] = gc.timers[r]
              /\ gc'.owner[r] = gc.owner[r]
              /\ r \in gc'.scheduled
        /\ TimerSweep(r) =>
              /\ gc.owner[r] \in Clients
              /\ \A c \in Clients : c # gc.owner[r] => gc'.tl[c] = gc.tl[c]
              /\ LET m == maxLifetimeOf(gc, r)
                     o == gc.owner[r]
                 IN  (r \in KnownRooms /\ m > 0) =>
                       \A i \in 1..Len(gc.tl[o][r]) :
                         gc.tl[o][r][i].ts < gc.now - m => gc'.tl[o][r][i].mark = "local"
        /\ \A c \in Clients :
              (Schedule(c, r) /\ r \in gc.scheduled) =>
                /\ gc'.tl = gc.tl
                /\ gc'.timers = gc.timers
                /\ gc'.sweeps = gc.sweeps
                /\ gc'.owner = gc.owner ]_vars

\* revision 3, second session: the room was scheduled with the first
\* client, scheduleRetentionGC was then called with the second, and the
\* last step was the timer's sweep, which read the first client's room while
\* the context exposed the second; the expired event of the second client's
\* room is unmarked
C25_Witness ==
  /\ rev = 3
  /\ loggedOut
  /\ gc.asked = {1, 2}
  /\ gc.owner["!a"] = 1
  /\ gc.last = [room |-> "!a", client |-> 1, ctx |-> 2]
  /\ Len(gc.tl[1]["!a"]) = 1 /\ gc.tl[1]["!a"][1].mark = "local"
  /\ Len(gc.tl[2]["!a"]) = 1 /\ gc.tl[2]["!a"][1].mark = "none"
  /\ gc.tl[2]["!a"][1].ts < gc.now - maxLifetimeOf(gc, "!a")

\* C26: a paginateBack call that found no client or no room has returned 0
\* with no request made; any other has made at most `batches` requests, each
\* issued after the one before was answered, none after an answer of no more
\* history, and when it has returned, its result is limitPerBatch times the
\* answers of more history: 0 exactly when the first answer was no more
\* history, and at most batches * limitPerBatch.
C26_PaginateBack ==
  LET p == ui.pb
  IN  /\ p.blocked => p.st = "done" /\ p.reqs = 0 /\ p.loaded = 0
      /\ (p.st # "idle" /\ ~p.blocked) =>
            /\ p.reqs <= p.batches
            /\ p.reqs = p.mores + p.ends + p.throws + (IF p.st = "wait" THEN 1 ELSE 0)
            /\ p.ends <= 1
            /\ p.ends = 1 => p.st = "done"
            /\ p.st = "done" =>
                  /\ p.loaded = p.limit * p.mores
                  /\ p.loaded = 0 <=> (p.ends = 1 /\ p.mores = 0)
                  /\ p.loaded <= p.batches * p.limit

\* three batches were allowed; the third request reported no more history
\* and the call returned twice the limit
C26_Witness ==
  /\ ui.pb.st = "done"
  /\ ui.pb.batches = 3
  /\ ui.pb.reqs = 3 /\ ui.pb.mores = 2 /\ ui.pb.ends = 1
  /\ ui.pb.loaded = 2 * ui.pb.limit

IsPrefix(s, t) == Len(s) <= Len(t) /\ \A i \in 1..Len(s) : s[i] = t[i]
ImportOrder == <<"crypto.text", "crypto.parsed", "client.text", "client.parsed">>
\* the attempts of the fixed order that are available to a call
AvailableTo(m) ==
  SelectSeq(ImportOrder,
            LAMBDA a : CASE a = "crypto.text" -> m.c # 0 /\ cl[m.c].crypto /\ m.cIm
                         [] a = "crypto.parsed" -> m.c # 0 /\ cl[m.c].crypto /\ m.cIm /\ Parses(m.file)
                         [] a = "client.text" -> m.mIm
                         [] OTHER -> m.mIm /\ Parses(m.file))

\* C27: the attempts made are the first ones of the fixed order among those
\* available; none follows an attempt that succeeded, and success is
\* reported once, and only then; a call that reported failure has no
\* attempt that succeeded, and the error it reported last is that of its
\* last attempt; an armoured file causes no attempt.
C27_ImportRetries ==
  LET m == ui.imp
  IN  m.st # "idle" =>
        /\ IsPrefix(m.tried, AvailableTo(m))
        /\ m.okAlerts = (IF m.won > 0 THEN 1 ELSE 0)
        /\ m.won > 0 => m.st = "done" /\ m.won = Len(m.tried)
        /\ (m.st = "done" /\ m.failAlerts > 0) =>
              /\ m.won = 0
              /\ m.tried # <<>> => m.failMsg = m.tried[Len(m.tried)]
        /\ IsArmoured(m.file) => m.tried = <<>>


\* a step of the helper call in flight that passes, or stops at, the gate of
\* maybeInitCrypto: the call itself, or the return of its ensureCrypto
AtGate == ui'.h # ui.h /\ ui.h.st # "req"
HasCryptoThen == ui'.h.c # 0 /\ cl'[ui'.h.c].crypto

\* C28: ensureRoomEncrypted is idempotent and fails closed. With no client it
\* throws 'No client'; with crypto still unavailable after its one
\* initialisation attempt it throws 'Crypto not initialised'; with crypto and
\* an unknown room it throws 'Unknown room'; on an already encrypted room it
\* returns; in all four cases it sends no request. On a known unencrypted
\* room with crypto it sends exactly one m.room.encryption request with
\* algorithm m.megolm.v1.aes-sha2, and nothing more when that settles.
C28_EnsureRoomEncrypted ==
  [][(ui'.h # ui.h /\ ui'.h.kind = "encrypt") =>
       LET h == ui'.h
           state == roomState(ui, h.room)
           stops(msg) == h.st = "done" /\ h.res = msg /\ h.reqs = <<>>
       IN  /\ h.inits <= 1
           /\ Len(h.reqs) <= 1
           /\ ui.h.st = "req" => h.reqs = ui.h.reqs /\ h.st = "done"
           /\ (AtGate /\ h.c = 0) => stops("No client")
           /\ (AtGate /\ h.c # 0 /\ ~HasCryptoThen) =>
                IF ui.h.st = "init" THEN stops("Crypto not initialised")
                ELSE h.st = "init" /\ h.inits = 1 /\ h.reqs = <<>>
           /\ (AtGate /\ HasCryptoThen /\ state = "unknown") => stops("Unknown room")
           /\ (AtGate /\ HasCryptoThen /\ state = "encrypted") => stops("ok")
           /\ (AtGate /\ HasCryptoThen /\ state = "plain") =>
                /\ h.st = "req"
                /\ h.reqs = <<[type |-> "m.room.encryption", room |-> h.room,
                               algorithm |-> "m.megolm.v1.aes-sha2", preset |-> ""]>>]_vars

\* a second ensureRoomEncrypted on a room the first one got encrypted has
\* returned without a request
C28_Witness ==
  /\ ui.h.kind = "encrypt" /\ ui.h.st = "done" /\ ui.h.res = "ok"
  /\ ui.h.room = "!plain" /\ ui.h.reqs = <<>>
  /\ ui.room["!plain"] = "encrypted"

\* C29: createEncryptedRoom and createEncryptedDM call createRoom only when
\* the client has crypto at that moment, after at most one initialisation
\* attempt; otherwise they throw and create no room; every room created
\* carries the m.room.encryption initial state with m.megolm.v1.aes-sha2.
C29_NoRoomWithoutCrypto ==
  /\ [](\A x \in ui.created : x.algorithm = "m.megolm.v1.aes-sha2")
  /\ [][(ui'.h # ui.h /\ ui'.h.kind \in {"room", "dm"}) =>
          LET h == ui'.h
          IN  /\ h.inits <= 1
              /\ Len(h.reqs) <= 1
              /\ (AtGate /\ h.reqs # <<>>) =>
                   /\ HasCryptoThen
                   /\ h.reqs[1].type = "createRoom"
                   /\ h.reqs[1].algorithm = "m.megolm.v1.aes-sha2"
              /\ (AtGate /\ ~HasCryptoThen /\ (h.c = 0 \/ ui.h.st = "init")) =>
                   /\ h.st = "done"
                   /\ h.res = (IF h.c = 0 THEN "No client" ELSE "Crypto not initialised")
                   /\ h.reqs = <<>>
              /\ ui'.created # ui.created =>
                   ui.h.st = "req" /\ h.res = "ok" /\ h.reqs # <<>>
              /\ (h.st = "done" /\ h.res # "ok") => ui'.created = ui.created]_vars

\* a direct-message room was created by a call that had to initialise crypto
C29_Witness ==
  /\ ui.h.kind = "dm" /\ ui.h.st = "done" /\ ui.h.res = "ok" /\ ui.h.inits = 1
  /\ [preset |-> "trusted_private_chat", algorithm |-> Megolm] \in ui.created

\* C30: RoomView.sendMessage calls sendEvent only if the bound room reports
\* itself encrypted at that point, with a non-empty trimmed body, once per
\* call; when the room is unencrypted and the user declines, nothing is sent.
C30_SendOnlyEncrypted ==
  [][ui'.send # ui.send =>
       LET s == ui'.send
       IN  /\ Len(s.sent) <= 1
           /\ (s.st = "sending" /\ ui.send.st # "sending") =>
                /\ client # 0
                /\ roomState(ui', s.room) = "encrypted"
                /\ Trim(ui.input) # ""
                /\ s.sent = <<Trim(ui.input)>>
           /\ (s.st # "sending" /\ ui.send.st # "sending") => s.sent = <<>>
           /\ \A r \in {"", "!plain", "!enc"} :
                (SendMessage(r, FALSE) /\ roomState(ui, r) # "encrypted") =>
                  s.st = "done" /\ s.sent = <<>>
           /\ (ui.send.st = "encrypting" /\ s.st # "encrypting"
               /\ roomState(ui', s.room) # "encrypted") =>
                  s.st = "done" /\ s.sent = <<>>]_vars

\* a message went out to a room that the same sendMessage got encrypted
C30_Witness ==
  /\ ui.send.st = "sending" /\ ui.send.room = "!plain" /\ ui.send.sent = <<"hi">>
  /\ ui.h.kind = "encrypt" /\ ui.h.room = "!plain" /\ ui.h.res = "ok" /\ ui.h.reqs # <<>>


\* C31: whenever RoomView shows a bound room (activeRoomId and boundRoom both
\* set), the bound room's id is the current activeRoomId, also while
\* waitForRoom polls for a room that is not published yet and after its
\* window has expired.
C31_BoundIsActive ==
  (ui.nav.boundRoom # "" /\ ui.nav.activeRoomId # "")
    => ui.nav.boundRoom = ui.nav.activeRoomId



\* C32: for a loginToken, finishSsoLoginWithToken is called at most once
\* while a call for it is in flight or has returned: every call beyond the
\* first follows a call that threw, a call is made only without the guard
\* and sets it, a call in flight or returned has the guard set, and a call
\* that throws removes the guard.
C32_SsoTokenGuard ==
  /\ [](\A t \in Tokens :
          LET inFlight == \E f \in ui.sso.flights : f.tok = t
          IN  /\ ui.sso.calls[t] <= ui.sso.fails[t] + 1
              /\ (inFlight \/ t \in ui.sso.won) => t \in ui.sso.guard
              /\ inFlight => ui.sso.calls[t] = ui.sso.fails[t] + 1 /\ t \notin ui.sso.won
              /\ t \in ui.sso.won => ui.sso.calls[t] = ui.sso.fails[t] + 1)
  /\ [][\A t \in Tokens :
          /\ ui'.sso.calls[t] > ui.sso.calls[t] =>
               t \notin ui.sso.guard /\ t \in ui'.sso.guard
          /\ ui'.sso.fails[t] > ui.sso.fails[t] => t \notin ui'.sso.guard]_vars

\* a token whose first call threw was redeemed by a second call
C32_Witness ==
  \E t \in Tokens : ui.sso.calls[t] = 2 /\ ui.sso.fails[t] = 1 /\ t \in ui.sso.won

\* what the step's own handler asks the selection to be, before RoomList's
\* selection effect runs
Wanted ==
  IF JoinSettles THEN CreatedId
  ELSE IF HashChange THEN getActiveFromHash(ui.nav.hash)
  ELSE IF \E id \in NavIds : SelectRoom(id) /\ ui'.nav.active = id THEN ui'.nav.active
  ELSE ui.nav.active

\* C33: once the effects of a change have run, a non-empty published list
\* holds the selection.  A selection that is empty or names no listed room is
\* replaced by the first room of the list, and the hash is set to that room;
\* a selection that names a listed room is left as it is, and so is the
\* hash unless the step's own handler wrote it.
C33_SelectionSettlesInList ==
  [][ui'.nav # ui.nav =>
       LET n == ui'.nav
           listed == Wanted # "" /\ find(n.list, Wanted) # ""
           wrote == JoinSettles \/ (\E h \in HashParts : Navigate(h))
                      \/ (\E id \in NavIds : SelectRoom(id))
       IN  /\ n.list = <<>> => n.active = Wanted
           /\ (n.list # <<>> /\ ~listed) =>
                /\ n.active = n.list[1]
                /\ n.hash = encodeURIComponent(n.list[1])
           /\ (n.list # <<>> /\ listed) =>
                /\ n.active = Wanted
                /\ ~wrote => n.hash = ui.nav.hash]_vars

\* the hash named a room the account does not have, and RoomList has put
\* the first listed room into the selection and the hash
C33_Witness ==
  /\ ui.nav.list # <<>>
  /\ ui.nav.activeRoomId = StrangerId
  /\ ui.nav.active = ui.nav.list[1]
  /\ ui.nav.hash = encodeURIComponent(ui.nav.list[1])
  /\ ui.nav.hashEv

\* C34: when onNewRoom / onNewDM has succeeded, the created room is the
\* selection and the hash names it, and it is still the selection when the
\* room appears in the published list.
C34_CreatedStaysSelected ==
  [][/\ JoinSettles =>
          /\ ui'.nav.active = CreatedId
          /\ ui'.nav.hash = encodeURIComponent(CreatedId)
     /\ (ui.nav.made /\ ui.nav.active = CreatedId
         /\ \E first \in BOOLEAN : RoomPublished(CreatedId, first)) =>
          ui'.nav.active = CreatedId]_vars

====
